---- MODULE Spec2Model ----
(***************************************************************************)
(* The chapter-3 exercise program (src/chapter_3_suggested_exercises.rs):  *)
(* two temperature conversions over i32, the iterative nth_fib over u32,   *)
(* the christmas_carol printer and main.                                   *)
(*                                                                         *)
(* TLC's integers are the 32-bit signed integers, so an i32 value is kept  *)
(* as a TLC integer and every i32 operation decides overflow before it     *)
(* computes; a u32 value is kept as a pair <<hi, lo>> of 16-bit limbs.     *)
(* Rust's integer overflow is not one behaviour: a build with overflow     *)
(* checks (debug) panics, a build without (release) wraps modulo 2^32.     *)
(* overflow_checks is chosen in Init and both builds are explored.         *)
(*                                                                         *)
(* The examples of the notes follow, each with a specification of its own: *)
(* the guessing game (src/rust_chapter_2_guessing_game.rs), the Guess type *)
(* and open-or-create (src/rust_chapter_9_error_handling.rs), and the hash *)
(* map operations (src/rust_chapter_8_common_collections.rs), and the loop *)
(* examples (src/rust_chapter_3_common_concepts.rs).                       *)
(***************************************************************************)
EXTENDS Integers, Sequences, FiniteSets, TLC

VARIABLES
    overflow_checks,  \* TRUE: debug profile (overflow panics); FALSE: release (wraps)
    caller,           \* "main": the program run; "test": one routine applied to an input
    pc,               \* position in the program
    arg,              \* the input a test run applies a routine to
    celsius,          \* main's local `celsius` / the parameter of celsius_to_fahrenheit
    fahrenheit,       \* main's local `fahrenheit` / the parameter of fahrenheit_to_celsius
    main_n,           \* main's local `n`
    result,           \* value returned by the last temperature conversion (i32)
    n,                \* nth_fib's parameter
    f1, f2,           \* nth_fib's accumulators (u32, as limb pairs)
    count,            \* nth_fib's counter
    fib_ret,          \* value returned by nth_fib (u32, as a limb pair)
    carol_items,      \* christmas_carol's catalogue (<<>> before the let)
    range_start,      \* the Range 1..12: next value to yield
    carol_n,          \* christmas_carol's loop variable `n`
    back,             \* the reversed slice iterator: number of items not yet yielded
    out,              \* standard output, one element per line
    err,              \* panic message ("" while none)
    calls,            \* history: the routine calls made, with their arguments
    returned,         \* history: the <<call, outcome>> pairs of the calls that returned
    game,             \* guessing game: "loop" (parse .expect) or "final" (match on parse)
    secret_number,    \* guessing game: the secret (0 before it is drawn)
    line,             \* guessing game: the String `guess`, a sequence of characters
    guess,            \* guessing game: the u32 `guess` of this round (<<>> while none)
    round,            \* guessing game: number of rounds started
    guesses,          \* Guess: the Guess values that exist, in order of creation
    guess_arg,        \* Guess: the argument of the last Guess::new
    got,              \* Guess: the i32 the last value() returned
    open_result,      \* open-or-create: what File::open("hello.txt") returns
    create_result,    \* open-or-create: what File::create("hello.txt") returns
    opener,           \* open-or-create: per version, its position, file, operations, panic
    map,              \* hash map: the HashMap, a function from its keys
    map_before,       \* hash map: the map before the last operation
    map_ops,          \* hash map: history of the operations applied
    loop_pc,          \* loop examples: per example, its position
    up_count,         \* 'counting_up example: `count`
    remaining,        \* 'counting_up example: `remaining` (0 before its let)
    counter,          \* break-with-value example: `counter`
    loop_result       \* break-with-value example: `result` (0 before the loop is left)

vars == <<overflow_checks, caller, pc, arg, celsius, fahrenheit, main_n, result,
          n, f1, f2, count, fib_ret, carol_items, range_start, carol_n, back,
          out, err, calls, returned, game, secret_number, line, guess, round,
          guesses, guess_arg, got, open_result, create_result, opener,
          map, map_before, map_ops,
          loop_pc, up_count, remaining, counter, loop_result>>

\* The locals of the exercise program, for the examples of the other chapters
\* (which use pc, out and err for their own position, output and panic).
ex_locals == <<overflow_checks, caller, arg, celsius, fahrenheit, main_n, result,
               n, f1, f2, count, fib_ret, carol_items, range_start, carol_n,
               back, calls>>

\* The state of the examples of the other chapters.
game_vars == <<game, secret_number, line, guess, round>>
guess_vars == <<guesses, guess_arg, got>>
open_vars == <<open_result, create_result, opener>>
map_vars == <<map, map_before, map_ops>>
loop_vars == <<loop_pc, up_count, remaining, counter, loop_result>>
chapter_vars == <<game_vars, guess_vars, open_vars, map_vars, loop_vars>>

\* What the steps of one chapter's example leave alone.
game_frame == <<ex_locals, returned, guess_vars, open_vars, map_vars, loop_vars>>
guess_frame == <<ex_locals, returned, game_vars, open_vars, map_vars, loop_vars>>
open_frame == <<ex_locals, returned, game_vars, guess_vars, map_vars, loop_vars>>
map_frame == <<ex_locals, returned, game_vars, guess_vars, open_vars, loop_vars>>
loop_frame == <<ex_locals, returned, game_vars, guess_vars, open_vars, map_vars>>
notes_vars == <<returned, chapter_vars>>

(***************************************************************************)
(* Bounds of the test runs.                                                *)
(***************************************************************************)
MaxTemp == 130
MaxN == 50

(***************************************************************************)
(* i32 arithmetic.                                                         *)
(***************************************************************************)
I32_MAX == 2147483647
I32_MIN == -I32_MAX - 1
Limb == 2^16

Ok(v) == [ok |-> TRUE, val |-> v, msg |-> ""]
Panicked(m) == [ok |-> FALSE, val |-> 0, msg |-> m]

\* The two's-complement bit pattern of an i32, as limbs <<hi, lo>>.
I32Bits(x) == IF x >= 0 THEN <<x \div Limb, x % Limb>>
              ELSE <<(x \div Limb) + Limb, x % Limb>>

\* The i32 a 32-bit pattern stands for.
I32FromBits(w) == IF w[1] >= Limb \div 2 THEN (w[1] - Limb) * Limb + w[2]
                  ELSE w[1] * Limb + w[2]

\* a + b on i32.
add_i32(a, b) ==
    IF b >= 0 /\ a > I32_MAX - b
    THEN IF overflow_checks THEN Panicked("attempt to add with overflow")
         ELSE Ok((a + I32_MIN) + (b + I32_MIN))
    ELSE IF b < 0 /\ a < I32_MIN - b
    THEN IF overflow_checks THEN Panicked("attempt to add with overflow")
         ELSE Ok((a - I32_MIN) + (b - I32_MIN))
    ELSE Ok(a + b)

\* a - b on i32.
sub_i32(a, b) ==
    IF b > 0 /\ a < I32_MIN + b
    THEN IF overflow_checks THEN Panicked("attempt to subtract with overflow")
         ELSE Ok((a - I32_MIN) + ((I32_MAX - b) + 1))
    ELSE IF b <= 0 /\ a > I32_MAX + b
    THEN IF overflow_checks THEN Panicked("attempt to subtract with overflow")
         ELSE Ok((a + I32_MIN) + (I32_MIN - b))
    ELSE Ok(a - b)

\* Mutant: the product always wrapped, never checked (wrapping_mul).
mul_i32_Wrapping(a, b) ==
    LET w == I32Bits(a)
        lo == w[2] * b
        hi == w[1] * b + (lo \div Limb)
    IN Ok(I32FromBits(<<hi % Limb, lo % Limb>>))

\* The largest k with k * b <= 2^31, for b >= 2.
MinQuot(b) == (I32_MAX \div b) + (IF I32_MAX % b = b - 1 THEN 1 ELSE 0)

\* a * b on i32, for a literal factor 2 <= b < 2^15.
mul_i32(a, b) ==
    IF a > I32_MAX \div b \/ a < -MinQuot(b)
    THEN IF overflow_checks THEN Panicked("attempt to multiply with overflow")
         ELSE LET w == I32Bits(a)
                  lo == w[2] * b
                  hi == w[1] * b + (lo \div Limb)
              IN Ok(I32FromBits(<<hi % Limb, lo % Limb>>))
    ELSE Ok(a * b)

\* Mutant: the quotient rounded down (div_euclid for a positive divisor).
div_i32_Floor(a, b) == Ok(a \div b)

\* Mutant: the quotient rounded up.
div_i32_Ceil(a, b) == IF a % b = 0 THEN Ok(a \div b) ELSE Ok((a \div b) + 1)

\* Mutant: the quotient rounded to the nearest integer.
div_i32_Nearest(a, b) ==
    IF 2 * (a % b) >= b THEN Ok((a \div b) + 1) ELSE Ok(a \div b)

\* a / b on i32 for a literal divisor b > 0: the quotient rounded toward zero.
div_i32(a, b) ==
    IF a >= 0 \/ a % b = 0 THEN Ok(a \div b) ELSE Ok((a \div b) + 1)

(***************************************************************************)
(* The temperature conversions.  `celsius * 9/5` parses as                 *)
(* (celsius * 9) / 5 and `(fahrenheit - 32) * 5/9` as                      *)
(* ((fahrenheit - 32) * 5) / 9.                                            *)
(***************************************************************************)
\* Mutant: the division applied before the multiplication, celsius / 5 * 9.
c2f_DivFirst(c) ==
    LET d == div_i32(c, 5) IN
    LET m == mul_i32(d.val, 9) IN
    IF ~m.ok THEN m ELSE add_i32(m.val, 32)

celsius_to_fahrenheit(c) ==
    LET m == mul_i32(c, 9) IN
    IF ~m.ok THEN m ELSE
    LET d == div_i32(m.val, 5) IN
    IF ~d.ok THEN d ELSE add_i32(d.val, 32)

\* Mutant: the parentheses left out, fahrenheit - 32 * 5/9.
f2c_NoParens(f) == sub_i32(f, div_i32(32 * 5, 9).val)

fahrenheit_to_celsius(f) ==
    LET s == sub_i32(f, 32) IN
    IF ~s.ok THEN s ELSE
    LET m == mul_i32(s.val, 5) IN
    IF ~m.ok THEN m ELSE div_i32(m.val, 9)

(***************************************************************************)
(* u32 arithmetic on limb pairs <<hi, lo>>, value hi * 2^16 + lo.          *)
(***************************************************************************)
\* The u32 of a small natural number (a literal of the program).
U32(k) == <<k \div Limb, k % Limb>>

U32Less(a, b) == a[1] < b[1] \/ (a[1] = b[1] /\ a[2] < b[2])

\* Mutant: accumulators wider than 32 bits, the sum never reduced.
add_u32_Wide(a, b) ==
    LET lo == a[2] + b[2]
    IN Ok(<<a[1] + b[1] + (lo \div Limb), lo % Limb>>)

\* a + b on u32.
add_u32(a, b) ==
    LET lo == a[2] + b[2]
        hi == a[1] + b[1] + (lo \div Limb)
    IN IF hi >= Limb /\ overflow_checks
       THEN Panicked("attempt to add with overflow")
       ELSE Ok(<<hi % Limb, lo % Limb>>)

\* a - b on u32.
sub_u32(a, b) ==
    LET borrow == IF a[2] < b[2] THEN 1 ELSE 0
        lo == a[2] - b[2] + borrow * Limb
        hi == a[1] - b[1] - borrow
    IN IF U32Less(a, b) /\ overflow_checks
       THEN Panicked("attempt to subtract with overflow")
       ELSE Ok(<<hi % Limb, lo>>)

(***************************************************************************)
(* Formatting: `{}` and `{:?}` of an integer print its decimal digits,     *)
(* `{:?}` of a &str prints it between double quotes.  No entry of the      *)
(* catalogue holds a character that `{:?}` escapes.                        *)
(***************************************************************************)
Digit(d) == <<"0", "1", "2", "3", "4", "5", "6", "7", "8", "9">>[d + 1]

RECURSIVE fmt_nat(_)
fmt_nat(k) == IF k < 10 THEN Digit(k) ELSE fmt_nat(k \div 10) \o Digit(k % 10)

\* An i32: a minus sign and the digits of the magnitude (built from the
\* quotient and remainder toward zero, so that i32::MIN needs no negation).
RECURSIVE fmt_neg(_)
fmt_neg(x) ==
    LET q == div_i32(x, 10).val
        r == q * 10 - x
    IN IF q = 0 THEN Digit(r) ELSE fmt_neg(q) \o Digit(r)

fmt_i32(x) == IF x >= 0 THEN fmt_nat(x) ELSE "-" \o fmt_neg(x)

\* A u32 limb pair: long division by ten.
RECURSIVE fmt_u32(_)
fmt_u32(w) ==
    LET qh == w[1] \div 10
        t == (w[1] % 10) * Limb + w[2]
        q == <<qh, t \div 10>>
    IN IF w[1] = 0 /\ w[2] < 10 THEN Digit(w[2])
       ELSE fmt_u32(q) \o Digit(t % 10)

fmt_debug_str(s) == "\"" \o s \o "\""

(***************************************************************************)
(* A panic ends the run: nothing is printed after it.                      *)
(***************************************************************************)
ReturnTo(main_pc) == IF caller = "main" THEN main_pc ELSE "test_done"

(***************************************************************************)
(* nth_fib, one action per statement.                                      *)
(***************************************************************************)
\* Mutant: the counter started at 1.
FibLets_CountFromOne ==
    /\ pc = "fib_lets"
    /\ f1' = U32(0)
    /\ f2' = U32(1)
    /\ count' = 1
    /\ pc' = "fib_while"
    /\ UNCHANGED <<overflow_checks, caller, arg, celsius, fahrenheit, main_n,
                   result, n, fib_ret, carol_items, range_start, carol_n, back,
                   out, err, calls>>
    /\ UNCHANGED notes_vars

\* let mut f1 = 0; let mut f2 = 1; let mut count = 2;
\* Mutant: the accumulators kept in statics, initialised by the first call.
FibLets_Static ==
    /\ pc = "fib_lets"
    /\ IF count = 0 THEN f1' = U32(0) /\ f2' = U32(1) ELSE UNCHANGED <<f1, f2>>
    /\ count' = 2
    /\ pc' = "fib_while"
    /\ UNCHANGED <<overflow_checks, caller, arg, celsius, fahrenheit, main_n,
                   result, n, fib_ret, carol_items, range_start, carol_n, back,
                   out, err, calls>>
    /\ UNCHANGED notes_vars

\* Mutant: both accumulators seeded with 1.
FibLets_SeedOne ==
    /\ pc = "fib_lets"
    /\ f1' = U32(1)
    /\ f2' = U32(1)
    /\ count' = 2
    /\ pc' = "fib_while"
    /\ UNCHANGED <<overflow_checks, caller, arg, celsius, fahrenheit, main_n,
                   result, n, fib_ret, carol_items, range_start, carol_n, back,
                   out, err, calls>>
    /\ UNCHANGED notes_vars

\* Mutant: the two seeds exchanged, f1 = 1 and f2 = 0.
FibLets_SeedsSwapped ==
    /\ pc = "fib_lets"
    /\ f1' = U32(1)
    /\ f2' = U32(0)
    /\ count' = 2
    /\ pc' = "fib_while"
    /\ UNCHANGED <<overflow_checks, caller, arg, celsius, fahrenheit, main_n,
                   result, n, fib_ret, carol_items, range_start, carol_n, back,
                   out, err, calls>>
    /\ UNCHANGED notes_vars

FibLets ==
    /\ pc = "fib_lets"
    /\ f1' = U32(0)
    /\ f2' = U32(1)
    /\ count' = 2
    /\ pc' = "fib_while"
    /\ UNCHANGED <<overflow_checks, caller, arg, celsius, fahrenheit, main_n,
                   result, n, fib_ret, carol_items, range_start, carol_n, back,
                   out, err, calls>>
    /\ UNCHANGED notes_vars

\* while count < n { ... } f2
\* Mutant: the test count <= n, one more iteration.
FibWhile_LessEq ==
    /\ pc = "fib_while"
    /\ IF count <= n
       THEN pc' = "fib_add" /\ fib_ret' = fib_ret
       ELSE pc' = ReturnTo("main_print_fib") /\ fib_ret' = f2
    /\ UNCHANGED <<overflow_checks, caller, arg, celsius, fahrenheit, main_n,
                   result, n, f1, f2, count, carol_items, range_start, carol_n,
                   back, out, err, calls>>
    /\ UNCHANGED notes_vars

FibWhile ==
    /\ pc = "fib_while"
    /\ IF count < n
       THEN pc' = "fib_add" /\ fib_ret' = fib_ret
       ELSE pc' = ReturnTo("main_print_fib") /\ fib_ret' = f2
    /\ UNCHANGED <<overflow_checks, caller, arg, celsius, fahrenheit, main_n,
                   result, n, f1, f2, count, carol_items, range_start, carol_n,
                   back, out, err, calls>>
    /\ UNCHANGED notes_vars

\* f2 += f1;
FibAdd ==
    /\ pc = "fib_add"
    /\ LET r == add_u32(f2, f1) IN
       IF r.ok THEN f2' = r.val /\ pc' = "fib_sub" /\ err' = err
       ELSE f2' = f2 /\ pc' = "panic" /\ err' = r.msg
    /\ UNCHANGED <<overflow_checks, caller, arg, celsius, fahrenheit, main_n,
                   result, n, f1, count, fib_ret, carol_items, range_start,
                   carol_n, back, out, calls>>
    /\ UNCHANGED notes_vars

\* Mutant: the operands of the subtraction exchanged, f1 = f1 - f2.
FibSub_Swapped ==
    /\ pc = "fib_sub"
    /\ LET r == sub_u32(f1, f2) IN
       IF r.ok THEN f1' = r.val /\ pc' = "fib_inc" /\ err' = err
       ELSE f1' = f1 /\ pc' = "panic" /\ err' = r.msg
    /\ UNCHANGED <<overflow_checks, caller, arg, celsius, fahrenheit, main_n,
                   result, n, f2, count, fib_ret, carol_items, range_start,
                   carol_n, back, out, calls>>
    /\ UNCHANGED notes_vars

\* Mutant: the subtraction left out, f1 = f2.
FibSub_NoSubtract ==
    /\ pc = "fib_sub"
    /\ LET r == Ok(f2) IN
       IF r.ok THEN f1' = r.val /\ pc' = "fib_inc" /\ err' = err
       ELSE f1' = f1 /\ pc' = "panic" /\ err' = r.msg
    /\ UNCHANGED <<overflow_checks, caller, arg, celsius, fahrenheit, main_n,
                   result, n, f2, count, fib_ret, carol_items, range_start,
                   carol_n, back, out, calls>>
    /\ UNCHANGED notes_vars

\* f1 = f2 - f1;
FibSub ==
    /\ pc = "fib_sub"
    /\ LET r == sub_u32(f2, f1) IN
       IF r.ok THEN f1' = r.val /\ pc' = "fib_inc" /\ err' = err
       ELSE f1' = f1 /\ pc' = "panic" /\ err' = r.msg
    /\ UNCHANGED <<overflow_checks, caller, arg, celsius, fahrenheit, main_n,
                   result, n, f2, count, fib_ret, carol_items, range_start,
                   carol_n, back, out, calls>>
    /\ UNCHANGED notes_vars

\* count += 1;  (count < n here, so count + 1 is a u32)
FibInc ==
    /\ pc = "fib_inc"
    /\ count' = count + 1
    /\ pc' = "fib_while"
    /\ UNCHANGED <<overflow_checks, caller, arg, celsius, fahrenheit, main_n,
                   result, n, f1, f2, fib_ret, carol_items, range_start, carol_n,
                   back, out, err, calls>>
    /\ UNCHANGED notes_vars

(***************************************************************************)
(* christmas_carol.  Sequences are indexed from 1: the catalogue entry     *)
(* with Rust index i is carol_items[i + 1].                                *)
(***************************************************************************)
CarolCatalogue ==
    << "A partridge in a pear tree",
       "Two turtle doves",
       "Three french hens",
       "Four calling birds",
       "Five golden rings",
       "Six geese a-laying",
       "Seven swans a-swimming",
       "Eight maids a-milking",
       "Nine ladies dancing",
       "Ten lords a-leaping",
       "Eleven pipers piping",
       "Twelve drummers drumming" >>

\* Mutant: the day loop run to 12 inclusive.
DayEnd_Thirteen == 12 + 1

\* Mutant: the days counted from 0, `for n in 0..12`.
DayStart_Zero == 1 - 1

\* The range of `for n in 1..12`.
DayStart == 1
DayEnd == 12

\* let carol_items: [&str; 12] = [...]; and the range of the for loop is built
CarolLet ==
    /\ pc = "carol_let"
    /\ carol_items' = CarolCatalogue
    /\ range_start' = DayStart
    /\ pc' = "carol_for"
    /\ UNCHANGED <<overflow_checks, caller, arg, celsius, fahrenheit, main_n,
                   result, n, f1, f2, count, fib_ret, carol_n, back, out, err,
                   calls>>
    /\ UNCHANGED notes_vars

\* for n in 1..12: the range yields its next value, or the loop (and the
\* routine) ends
CarolFor ==
    /\ pc = "carol_for"
    /\ IF range_start < DayEnd
       THEN /\ carol_n' = range_start
            /\ range_start' = range_start + 1
            /\ pc' = "carol_announce"
       ELSE /\ UNCHANGED <<carol_n, range_start>>
            /\ pc' = ReturnTo("done")
    /\ UNCHANGED <<overflow_checks, caller, arg, celsius, fahrenheit, main_n,
                   result, n, f1, f2, count, fib_ret, carol_items, back, out,
                   err, calls>>
    /\ UNCHANGED notes_vars

\* Mutant: the English ordinal suffixes, 1st, 2nd, 3rd.
AnnounceLine_Ordinal(d) ==
    "On the " \o fmt_nat(d)
    \o (IF d = 1 THEN "st" ELSE IF d = 2 THEN "nd" ELSE IF d = 3 THEN "rd" ELSE "th")
    \o " day of Christmas, my true love gave to me"

AnnounceLine(d) ==
    "On the " \o fmt_nat(d) \o "th day of Christmas, my true love gave to me"

\* println!("On the {n}th day of Christmas, my true love gave to me");
CarolAnnounce ==
    /\ pc = "carol_announce"
    /\ out' = Append(out, AnnounceLine(carol_n))
    /\ pc' = "carol_slice"
    /\ UNCHANGED <<overflow_checks, caller, arg, celsius, fahrenheit, main_n,
                   result, n, f1, f2, count, fib_ret, carol_items, range_start,
                   carol_n, back, err, calls>>
    /\ UNCHANGED notes_vars

\* Mutant: the exclusive slice carol_items[0..n].
CarolSlice_Exclusive ==
    /\ pc = "carol_slice"
    /\ IF carol_n > Len(carol_items)
       THEN /\ pc' = "panic"
            /\ err' = "range end index out of range for slice"
            /\ back' = back
       ELSE /\ pc' = "carol_item"
            /\ err' = err
            /\ back' = carol_n
    /\ UNCHANGED <<overflow_checks, caller, arg, celsius, fahrenheit, main_n,
                   result, n, f1, f2, count, fib_ret, carol_items, range_start,
                   carol_n, out, calls>>
    /\ UNCHANGED notes_vars

\* carol_items[0..=n].iter().rev(): the slice is bounds-checked, the iterator
\* starts behind its last item
\* Mutant: the slice taken one entry further, carol_items[0..=n+1].
CarolSlice_PastEnd ==
    /\ pc = "carol_slice"
    /\ IF carol_n + 2 > Len(carol_items)
       THEN /\ pc' = "panic"
            /\ err' = "range end index out of range for slice"
            /\ back' = back
       ELSE /\ pc' = "carol_item"
            /\ err' = err
            /\ back' = carol_n + 2
    /\ UNCHANGED <<overflow_checks, caller, arg, celsius, fahrenheit, main_n,
                   result, n, f1, f2, count, fib_ret, carol_items, range_start,
                   carol_n, out, calls>>
    /\ UNCHANGED notes_vars

CarolSlice ==
    /\ pc = "carol_slice"
    /\ IF carol_n + 1 > Len(carol_items)
       THEN /\ pc' = "panic"
            /\ err' = "range end index out of range for slice"
            /\ back' = back
       ELSE /\ pc' = "carol_item"
            /\ err' = err
            /\ back' = carol_n + 1
    /\ UNCHANGED <<overflow_checks, caller, arg, celsius, fahrenheit, main_n,
                   result, n, f1, f2, count, fib_ret, carol_items, range_start,
                   carol_n, out, calls>>
    /\ UNCHANGED notes_vars

\* Mutant: the printed item is taken out of the catalogue.
CarolItem_Draining ==
    /\ pc = "carol_item"
    /\ IF back > 0
       THEN /\ out' = Append(out, fmt_debug_str(carol_items[back]))
            /\ carol_items' = SubSeq(carol_items, 1, back - 1)
                                \o SubSeq(carol_items, back + 1, Len(carol_items))
            /\ back' = back - 1
            /\ pc' = "carol_item"
       ELSE /\ UNCHANGED <<out, back, carol_items>>
            /\ pc' = "carol_for"
    /\ UNCHANGED <<overflow_checks, caller, arg, celsius, fahrenheit, main_n,
                   result, n, f1, f2, count, fib_ret, range_start, carol_n, err,
                   calls>>
    /\ UNCHANGED notes_vars

\* for item in ...rev() { println!("{:?}", item); }: the iterator yields the
\* item at its back, or the inner loop ends
CarolItem ==
    /\ pc = "carol_item"
    /\ IF back > 0
       THEN /\ out' = Append(out, fmt_debug_str(carol_items[back]))
            /\ back' = back - 1
            /\ pc' = "carol_item"
       ELSE /\ UNCHANGED <<out, back>>
            /\ pc' = "carol_for"
    /\ UNCHANGED <<overflow_checks, caller, arg, celsius, fahrenheit, main_n,
                   result, n, f1, f2, count, fib_ret, carol_items, range_start,
                   carol_n, err, calls>>
    /\ UNCHANGED notes_vars

(***************************************************************************)
(* main.                                                                   *)
(***************************************************************************)
MainCelsius == 44
MainFahrenheit == 91
MainN == 10

\* Mutant: the two temperature literals exchanged.
MainLets_Swapped ==
    /\ pc = "main_lets"
    /\ celsius' = MainFahrenheit
    /\ fahrenheit' = MainCelsius
    /\ main_n' = MainN
    /\ pc' = "main_c2f"
    /\ UNCHANGED <<overflow_checks, caller, arg, result, n, f1, f2, count,
                   fib_ret, carol_items, range_start, carol_n, back, out, err,
                   calls>>
    /\ UNCHANGED notes_vars

\* let celsius = 44; let fahrenheit = 91; let n = 10;
MainLets ==
    /\ pc = "main_lets"
    /\ celsius' = MainCelsius
    /\ fahrenheit' = MainFahrenheit
    /\ main_n' = MainN
    /\ pc' = "main_c2f"
    /\ UNCHANGED <<overflow_checks, caller, arg, result, n, f1, f2, count,
                   fib_ret, carol_items, range_start, carol_n, back, out, err,
                   calls>>
    /\ UNCHANGED notes_vars

\* println!("{celsius}c to f: {:?}", celsius_to_fahrenheit(celsius));
MainC2F ==
    /\ pc = "main_c2f"
    /\ calls' = Append(calls, <<"celsius_to_fahrenheit", celsius>>)
    /\ LET r == celsius_to_fahrenheit(celsius) IN
       IF r.ok
       THEN /\ result' = r.val
            /\ out' = Append(out, fmt_i32(celsius) \o "c to f: " \o fmt_i32(r.val))
            /\ pc' = "main_f2c"
            /\ err' = err
       ELSE /\ UNCHANGED <<result, out>>
            /\ pc' = "panic"
            /\ err' = r.msg
    /\ UNCHANGED <<overflow_checks, caller, arg, celsius, fahrenheit, main_n, n,
                   f1, f2, count, fib_ret, carol_items, range_start, carol_n,
                   back>>
    /\ UNCHANGED notes_vars

\* println!("{fahrenheit}f to c: {:?}", fahrenheit_to_celsius(fahrenheit));
MainF2C ==
    /\ pc = "main_f2c"
    /\ calls' = Append(calls, <<"fahrenheit_to_celsius", fahrenheit>>)
    /\ LET r == fahrenheit_to_celsius(fahrenheit) IN
       IF r.ok
       THEN /\ result' = r.val
            /\ out' = Append(out, fmt_i32(fahrenheit) \o "f to c: " \o fmt_i32(r.val))
            /\ pc' = "main_call_fib"
            /\ err' = err
       ELSE /\ UNCHANGED <<result, out>>
            /\ pc' = "panic"
            /\ err' = r.msg
    /\ UNCHANGED <<overflow_checks, caller, arg, celsius, fahrenheit, main_n, n,
                   f1, f2, count, fib_ret, carol_items, range_start, carol_n,
                   back>>
    /\ UNCHANGED notes_vars

\* nth_fib(n) is called ...
MainCallFib ==
    /\ pc = "main_call_fib"
    /\ calls' = Append(calls, <<"nth_fib", main_n>>)
    /\ n' = main_n
    /\ pc' = "fib_lets"
    /\ UNCHANGED <<overflow_checks, caller, arg, celsius, fahrenheit, main_n,
                   result, f1, f2, count, fib_ret, carol_items, range_start,
                   carol_n, back, out, err>>
    /\ UNCHANGED notes_vars

\* ... and println!("The {n}th fibonacci number is: {:?}", nth_fib(n));
MainPrintFib ==
    /\ pc = "main_print_fib"
    /\ out' = Append(out, "The " \o fmt_nat(main_n) \o "th fibonacci number is: "
                          \o fmt_u32(fib_ret))
    /\ pc' = "main_carol"
    /\ UNCHANGED <<overflow_checks, caller, arg, celsius, fahrenheit, main_n,
                   result, n, f1, f2, count, fib_ret, carol_items, range_start,
                   carol_n, back, err, calls>>
    /\ UNCHANGED notes_vars

\* christmas_carol();
MainCarol ==
    /\ pc = "main_carol"
    /\ calls' = Append(calls, <<"christmas_carol">>)
    /\ pc' = "carol_let"
    /\ UNCHANGED <<overflow_checks, caller, arg, celsius, fahrenheit, main_n,
                   result, n, f1, f2, count, fib_ret, carol_items, range_start,
                   carol_n, back, out, err>>
    /\ UNCHANGED notes_vars

\* The examples of the other chapters, not started.
GameIdle ==
    /\ game = "none"
    /\ secret_number = 0
    /\ line = <<>>
    /\ guess = <<>>
    /\ round = 0

GuessIdle ==
    /\ guesses = <<>>
    /\ guess_arg = 0
    /\ got = 0

OpenIdle ==
    /\ open_result = "none"
    /\ create_result = "none"
    /\ opener = <<>>

MapIdle ==
    /\ map = <<>>
    /\ map_before = <<>>
    /\ map_ops = <<>>

LoopIdle ==
    /\ loop_pc = <<>>
    /\ up_count = 0
    /\ remaining = 0
    /\ counter = 0
    /\ loop_result = 0

NotesIdle ==
    /\ returned = {}
    /\ GameIdle
    /\ GuessIdle
    /\ OpenIdle
    /\ MapIdle
    /\ LoopIdle

\* The exercise program, not started (for the examples of the other chapters,
\* which have no arithmetic that depends on the build profile).
ExerciseIdle ==
    /\ overflow_checks = TRUE
    /\ caller = "notes"
    /\ arg = 0
    /\ celsius = 0
    /\ fahrenheit = 0
    /\ main_n = 0
    /\ result = 0
    /\ n = 0
    /\ f1 = U32(0)
    /\ f2 = U32(0)
    /\ count = 0
    /\ fib_ret = U32(0)
    /\ carol_items = <<>>
    /\ range_start = 0
    /\ carol_n = 0
    /\ back = 0
    /\ calls = <<>>

(***************************************************************************)
(* The program run: main from its first statement, in either build.        *)
(***************************************************************************)
Init ==
    /\ overflow_checks \in BOOLEAN
    /\ caller = "main"
    /\ pc = "main_lets"
    /\ arg = 0
    /\ celsius = 0
    /\ fahrenheit = 0
    /\ main_n = 0
    /\ result = 0
    /\ n = 0
    /\ f1 = U32(0)
    /\ f2 = U32(0)
    /\ count = 0
    /\ fib_ret = U32(0)
    /\ carol_items = <<>>
    /\ range_start = 0
    /\ carol_n = 0
    /\ back = 0
    /\ out = <<>>
    /\ err = ""
    /\ calls = <<>>
    /\ NotesIdle

NthFib == FibLets \/ FibWhile \/ FibAdd \/ FibSub \/ FibInc

ChristmasCarol == CarolLet \/ CarolFor \/ CarolAnnounce \/ CarolSlice \/ CarolItem

Next ==
    \/ MainLets \/ MainC2F \/ MainF2C \/ MainCallFib \/ MainPrintFib \/ MainCarol
    \/ NthFib
    \/ ChristmasCarol

Spec == Init /\ [][Next]_vars

\* The program is one sequential thread that reads no input: whenever it has
\* a next statement, it executes it.
SpecLive == Spec /\ WF_vars(Next)

(***************************************************************************)
(* A conversion applied to one input: every temperature within MaxTemp of  *)
(* zero, and the inputs around the edges of the i32 range and around the   *)
(* first products that leave it.                                           *)
(***************************************************************************)
EdgeTemps ==
    LET at == {I32_MAX \div 9, -(I32_MAX \div 9), (I32_MAX \div 5) + 32,
               -(I32_MAX \div 5) + 32, I32_MIN + 32}
    IN {I32_MIN, I32_MIN + 1, I32_MAX - 1, I32_MAX}
       \cup {t - 1 : t \in at} \cup at \cup {t + 1 : t \in at}

TempInputs == (-MaxTemp .. MaxTemp) \cup EdgeTemps

InitConv ==
    /\ overflow_checks \in BOOLEAN
    /\ caller = "test"
    /\ pc = "test_conv"
    /\ arg \in TempInputs
    /\ celsius = 0
    /\ fahrenheit = 0
    /\ main_n = 0
    /\ result = 0
    /\ n = 0
    /\ f1 = U32(0)
    /\ f2 = U32(0)
    /\ count = 0
    /\ fib_ret = U32(0)
    /\ carol_items = <<>>
    /\ range_start = 0
    /\ carol_n = 0
    /\ back = 0
    /\ out = <<>>
    /\ err = ""
    /\ calls = <<>>
    /\ NotesIdle

\* celsius_to_fahrenheit(arg)
TestC2F ==
    /\ pc = "test_conv"
    /\ celsius' = arg
    /\ calls' = Append(calls, <<"celsius_to_fahrenheit", arg>>)
    /\ LET r == celsius_to_fahrenheit(arg) IN
       IF r.ok THEN result' = r.val /\ pc' = "test_done" /\ err' = err
       ELSE result' = result /\ pc' = "panic" /\ err' = r.msg
    /\ UNCHANGED <<overflow_checks, caller, arg, fahrenheit, main_n, n, f1, f2,
                   count, fib_ret, carol_items, range_start, carol_n, back, out>>
    /\ UNCHANGED notes_vars

\* fahrenheit_to_celsius(arg)
TestF2C ==
    /\ pc = "test_conv"
    /\ fahrenheit' = arg
    /\ calls' = Append(calls, <<"fahrenheit_to_celsius", arg>>)
    /\ LET r == fahrenheit_to_celsius(arg) IN
       IF r.ok THEN result' = r.val /\ pc' = "test_done" /\ err' = err
       ELSE result' = result /\ pc' = "panic" /\ err' = r.msg
    /\ UNCHANGED <<overflow_checks, caller, arg, celsius, main_n, n, f1, f2,
                   count, fib_ret, carol_items, range_start, carol_n, back, out>>
    /\ UNCHANGED notes_vars

NextConv == TestC2F \/ TestF2C

SpecConv == InitConv /\ [][NextConv]_vars

(***************************************************************************)
(* A round trip: one conversion applied to an input, then the other        *)
(* conversion applied to the value the first one returned.                 *)
(***************************************************************************)
\* celsius_to_fahrenheit(fahrenheit_to_celsius(arg))
ThenC2F ==
    /\ pc = "test_done"
    /\ calls = <<(<<"fahrenheit_to_celsius", arg>>)>>
    /\ celsius' = result
    /\ calls' = Append(calls, <<"celsius_to_fahrenheit", result>>)
    /\ LET r == celsius_to_fahrenheit(result) IN
       IF r.ok THEN result' = r.val /\ pc' = "test_round" /\ err' = err
       ELSE result' = result /\ pc' = "panic" /\ err' = r.msg
    /\ UNCHANGED <<overflow_checks, caller, arg, fahrenheit, main_n, n, f1, f2,
                   count, fib_ret, carol_items, range_start, carol_n, back, out>>
    /\ UNCHANGED notes_vars

\* fahrenheit_to_celsius(celsius_to_fahrenheit(arg))
ThenF2C ==
    /\ pc = "test_done"
    /\ calls = <<(<<"celsius_to_fahrenheit", arg>>)>>
    /\ fahrenheit' = result
    /\ calls' = Append(calls, <<"fahrenheit_to_celsius", result>>)
    /\ LET r == fahrenheit_to_celsius(result) IN
       IF r.ok THEN result' = r.val /\ pc' = "test_round" /\ err' = err
       ELSE result' = result /\ pc' = "panic" /\ err' = r.msg
    /\ UNCHANGED <<overflow_checks, caller, arg, celsius, main_n, n, f1, f2,
                   count, fib_ret, carol_items, range_start, carol_n, back, out>>
    /\ UNCHANGED notes_vars

NextRound == TestC2F \/ TestF2C \/ ThenC2F \/ ThenF2C

SpecRound == InitConv /\ [][NextRound]_vars

(***************************************************************************)
(* nth_fib applied to one position 0 .. MaxN.                              *)
(***************************************************************************)
InitFib ==
    /\ overflow_checks \in BOOLEAN
    /\ caller = "test"
    /\ pc = "fib_lets"
    /\ arg \in 0 .. MaxN
    /\ n = arg
    /\ celsius = 0
    /\ fahrenheit = 0
    /\ main_n = 0
    /\ result = 0
    /\ f1 = U32(0)
    /\ f2 = U32(0)
    /\ count = 0
    /\ fib_ret = U32(0)
    /\ carol_items = <<>>
    /\ range_start = 0
    /\ carol_n = 0
    /\ back = 0
    /\ out = <<>>
    /\ err = ""
    /\ calls = <<>>
    /\ NotesIdle

NextFib == FibLets \/ FibWhile \/ FibAdd \/ FibSub \/ FibInc

SpecFib == InitFib /\ [][NextFib]_vars

\* nth_fib is sequential code: while it has a next statement it executes it.
SpecFibLive == SpecFib /\ WF_vars(NextFib)

(***************************************************************************)
(* Repeated calls: one process calls the three routines up to MaxCalls     *)
(* times, in any order, each call starting when the previous one returned. *)
(* The locals of a call keep whatever the previous calls left in them.     *)
(***************************************************************************)
MaxCalls == 3
CallTemps == {-40, 91, I32_MAX}
CallPositions == {1, 10, 49}

InitCalls ==
    /\ overflow_checks \in BOOLEAN
    /\ caller = "test"
    /\ pc = "idle"
    /\ arg = 0
    /\ n = 0
    /\ celsius = 0
    /\ fahrenheit = 0
    /\ main_n = 0
    /\ result = 0
    /\ f1 = U32(0)
    /\ f2 = U32(0)
    /\ count = 0
    /\ fib_ret = U32(0)
    /\ carol_items = <<>>
    /\ range_start = 0
    /\ carol_n = 0
    /\ back = 0
    /\ out = <<>>
    /\ err = ""
    /\ calls = <<>>
    /\ NotesIdle

\* the caller picks the argument of a temperature conversion
CallConv ==
    /\ pc = "idle"
    /\ Len(calls) < MaxCalls
    /\ arg' \in CallTemps
    /\ pc' = "test_conv"
    /\ UNCHANGED <<overflow_checks, caller, celsius, fahrenheit, main_n, result,
                   n, f1, f2, count, fib_ret, carol_items, range_start, carol_n,
                   back, out, err, calls>>
    /\ UNCHANGED notes_vars

\* nth_fib(arg) is called
CallFib ==
    /\ pc = "idle"
    /\ Len(calls) < MaxCalls
    /\ arg' \in CallPositions
    /\ n' = arg'
    /\ calls' = Append(calls, <<"nth_fib", arg'>>)
    /\ pc' = "fib_lets"
    /\ UNCHANGED <<overflow_checks, caller, celsius, fahrenheit, main_n, result,
                   f1, f2, count, fib_ret, carol_items, range_start, carol_n,
                   back, out, err>>
    /\ UNCHANGED notes_vars

\* the call returns to its caller, which notes the value
CallReturn ==
    /\ pc = "test_done"
    /\ returned' = returned \cup
          {<<calls[Len(calls)],
             IF calls[Len(calls)][1] = "nth_fib" THEN fib_ret ELSE result>>}
    /\ pc' = "idle"
    /\ UNCHANGED <<overflow_checks, caller, arg, celsius, fahrenheit, main_n,
                   result, n, f1, f2, count, fib_ret, carol_items, range_start,
                   carol_n, back, out, err, calls>>
    /\ UNCHANGED chapter_vars

NextCalls ==
    \/ CallConv \/ TestC2F \/ TestF2C
    \/ CallFib \/ FibLets \/ FibWhile \/ FibAdd \/ FibSub \/ FibInc
    \/ CallReturn

SpecCalls == InitCalls /\ [][NextCalls]_vars

(***************************************************************************)
(* The guessing game (src/rust_chapter_2_guessing_game.rs), the looping    *)
(* version and the final version, whose parse is matched instead of        *)
(* expected.  A String is a sequence of characters; an ASCII character is  *)
(* the one-character string, a character outside ASCII is written by its   *)
(* code point, as "U+00A0" (one element of the sequence).                  *)
(***************************************************************************)
MaxRounds == 2
SecretMin == 1
SecretMax == 100

\* char::is_whitespace, the test of str::trim: the 25 characters with the
\* Unicode property White_Space - tab, line feed, vertical tab, form feed,
\* carriage return, space, and 19 characters outside ASCII.
WhiteSpace ==
    { "\t", "\n", "", "\f", "\r", " ",
      "U+0085", "U+00A0", "U+1680",
      "U+2000", "U+2001", "U+2002", "U+2003", "U+2004", "U+2005", "U+2006",
      "U+2007", "U+2008", "U+2009", "U+200A",
      "U+2028", "U+2029", "U+202F", "U+205F", "U+3000" }

\* str::trim: the leading and the trailing white space removed.
RECURSIVE TrimStart(_)
TrimStart(s) ==
    IF s # <<>> /\ Head(s) \in WhiteSpace THEN TrimStart(Tail(s)) ELSE s

RECURSIVE TrimEnd(_)
TrimEnd(s) ==
    IF s # <<>> /\ s[Len(s)] \in WhiteSpace
    THEN TrimEnd(SubSeq(s, 1, Len(s) - 1)) ELSE s

Trim(s) == TrimEnd(TrimStart(s))

Digits == <<"0", "1", "2", "3", "4", "5", "6", "7", "8", "9">>
IsDigit(c) == \E d \in 1 .. 10 : Digits[d] = c
DigitVal(c) == (CHOOSE d \in 1 .. 10 : Digits[d] = c) - 1

ParseErr(kind) == [ok |-> FALSE, val |-> U32(0), msg |-> kind]

\* The digits of s accumulated onto acc, left to right: a character that is
\* no digit is an error, and so is a value past u32::MAX.
RECURSIVE ParseDigits(_, _)
ParseDigits(s, acc) ==
    IF s = <<>> THEN Ok(acc)
    ELSE IF ~IsDigit(Head(s)) THEN ParseErr("InvalidDigit")
    ELSE LET lo == acc[2] * 10 + DigitVal(Head(s))
             hi == acc[1] * 10 + lo \div Limb
         IN IF hi >= Limb THEN ParseErr("PosOverflow")
            ELSE ParseDigits(Tail(s), <<hi, lo % Limb>>)

\* str::parse::<u32>: an optional '+', then one or more decimal digits.
ParseU32(s) ==
    IF s = <<>> THEN ParseErr("Empty")
    ELSE IF s = <<"+">> \/ s = <<"-">> THEN ParseErr("InvalidDigit")
    ELSE IF Head(s) = "+" THEN ParseDigits(Tail(s), U32(0))
    ELSE ParseDigits(s, U32(0))

\* What the player may type in a round; <<>> is the end of the input.
\* {:?} of a ParseIntError.
fmt_debug_parse_error(r) == "ParseIntError { kind: " \o r.msg \o " }"

\* The errors read_line can return: bytes that are not UTF-8 (an error made
\* by the library), or an error of the operating system.
ReadErrors ==
    { [os |-> FALSE, code |-> 0, kind |-> "InvalidData",
       message |-> "stream did not contain valid UTF-8"],
      [os |-> TRUE, code |-> 21, kind |-> "IsADirectory",
       message |-> "Is a directory"] }

\* {:?} of an io::Error.
fmt_debug_io_error(e) ==
    IF e.os
    THEN "Os { code: " \o fmt_nat(e.code) \o ", kind: " \o e.kind
         \o ", message: " \o fmt_debug_str(e.message) \o " }"
    ELSE "Error { kind: " \o e.kind
         \o ", message: " \o fmt_debug_str(e.message) \o " }"

\* Result::expect on an Err: the panic message is msg, ": " and {:?} of the
\* error.
expect_failed(msg, debug) == msg \o ": " \o debug

GameLines ==
    { <<"5", "0", "\n">>,
      <<"1", "0", "0", "\r", "\n">>,
      <<" ", "7", "\t", "\n">>,
      <<"", "7", "\f", "\n">>,
      <<"U+00A0", "7", "U+3000", "\n">>,
      <<"+", "5", "\n">>,
      <<"a", "b", "c", "\n">>,
      <<"-", "1", "\n">>,
      <<"\n">>,
      <<>>,
      <<"4", "2", "9", "4", "9", "6", "7", "2", "9", "5", "\n">>,
      <<"4", "2", "9", "4", "9", "6", "7", "2", "9", "6", "\n">> }

InitGame ==
    /\ ExerciseIdle
    /\ pc = "game_start"
    /\ out = <<>>
    /\ err = ""
    /\ returned = {}
    /\ game \in {"loop", "final"}
    /\ secret_number = 0
    /\ line = <<>>
    /\ guess = <<>>
    /\ round = 0
    /\ GuessIdle
    /\ OpenIdle
    /\ MapIdle
    /\ LoopIdle

\* println!("Guess the number!");
GameStart ==
    /\ pc = "game_start"
    /\ out' = Append(out, "Guess the number!")
    /\ pc' = "game_secret"
    /\ UNCHANGED <<err, game, secret_number, line, guess, round>>
    /\ UNCHANGED game_frame

\* let secret_number = rand::thread_rng().gen_range(1..=100);
GameSecret ==
    /\ pc = "game_secret"
    /\ secret_number' \in SecretMin .. SecretMax
    /\ pc' = "game_print_secret"
    /\ UNCHANGED <<out, err, game, line, guess, round>>
    /\ UNCHANGED game_frame

\* println!("The secret number is {secret_number}.");
GamePrintSecret ==
    /\ pc = "game_print_secret"
    /\ out' = Append(out, "The secret number is " \o fmt_nat(secret_number) \o ".")
    /\ pc' = "game_loop"
    /\ UNCHANGED <<err, game, secret_number, line, guess, round>>
    /\ UNCHANGED game_frame

\* Mutant: the secret number drawn anew in every round.
GamePrompt_Redraw ==
    /\ pc = "game_loop"
    /\ round < MaxRounds
    /\ round' = round + 1
    /\ out' = Append(out, "Please input your guess.")
    /\ line' = <<>>
    /\ guess' = <<>>
    /\ pc' = "game_read"
    /\ secret_number' \in SecretMin .. SecretMax
    /\ UNCHANGED <<err, game>>
    /\ UNCHANGED game_frame

\* loop { println!("Please input your guess."); let mut guess = String::new();
\* (the u32 `guess` of the round before is out of scope)
GamePrompt ==
    /\ pc = "game_loop"
    /\ round < MaxRounds
    /\ round' = round + 1
    /\ out' = Append(out, "Please input your guess.")
    /\ line' = <<>>
    /\ guess' = <<>>
    /\ pc' = "game_read"
    /\ UNCHANGED <<err, game, secret_number>>
    /\ UNCHANGED game_frame

\* io::stdin().read_line(&mut guess).expect("Failed to read line");
\* the line with its terminator is appended, nothing at the end of the
\* input, or the read fails.
GameReadLine ==
    /\ pc = "game_read"
    /\ \/ /\ \E l \in GameLines : line' = line \o l
          /\ pc' = "game_parse"
          /\ err' = err
       \/ /\ line' = line
          /\ pc' = "panic"
          /\ \E e \in ReadErrors :
                err' = expect_failed("Failed to read line", fmt_debug_io_error(e))
    /\ UNCHANGED <<out, game, secret_number, guess, round>>
    /\ UNCHANGED game_frame

\* Mutant: the final version's parse expected, as in the looping version.
GameParse_Expect ==
    /\ pc = "game_parse"
    /\ LET r == ParseU32(Trim(line)) IN
       IF r.ok THEN guess' = r.val /\ pc' = "game_print_guess" /\ err' = err
       ELSE /\ guess' = guess /\ pc' = "panic"
            /\ err' = expect_failed("Please type a number!", fmt_debug_parse_error(r))
    /\ UNCHANGED <<out, game, secret_number, line, round>>
    /\ UNCHANGED game_frame

\* let guess: u32 = guess.trim().parse().expect("Please type a number!");
\* final version: match guess.trim().parse() { Ok(num) => num, Err(_) => continue }
GameParse ==
    /\ pc = "game_parse"
    /\ LET r == ParseU32(Trim(line)) IN
       IF r.ok THEN guess' = r.val /\ pc' = "game_print_guess" /\ err' = err
       ELSE IF game = "loop"
       THEN /\ guess' = guess /\ pc' = "panic"
            /\ err' = expect_failed("Please type a number!", fmt_debug_parse_error(r))
       ELSE guess' = guess /\ pc' = "game_loop" /\ err' = err
    /\ UNCHANGED <<out, game, secret_number, line, round>>
    /\ UNCHANGED game_frame

\* println!("You guessed: {guess}");
GamePrintGuess ==
    /\ pc = "game_print_guess"
    /\ out' = Append(out, "You guessed: " \o fmt_u32(guess))
    /\ pc' = "game_cmp"
    /\ UNCHANGED <<err, game, secret_number, line, guess, round>>
    /\ UNCHANGED game_frame

\* Mutant: the break placed after the match, so that every compared round
\* leaves the loop.
GameCmp_BreakAfterMatch ==
    /\ pc = "game_cmp"
    /\ out' = Append(out, IF U32Less(guess, U32(secret_number)) THEN "Too small!"
                          ELSE IF U32Less(U32(secret_number), guess) THEN "Too large!"
                          ELSE "You win!")
    /\ pc' = "game_done"
    /\ UNCHANGED <<err, game, secret_number, line, guess, round>>
    /\ UNCHANGED game_frame

\* Mutant: the texts of the Less and Greater arms exchanged.
GameCmp_ArmsSwapped ==
    /\ pc = "game_cmp"
    /\ IF U32Less(guess, U32(secret_number))
       THEN out' = Append(out, "Too large!") /\ pc' = "game_loop"
       ELSE IF U32Less(U32(secret_number), guess)
       THEN out' = Append(out, "Too small!") /\ pc' = "game_loop"
       ELSE out' = Append(out, "You win!") /\ pc' = "game_done"
    /\ UNCHANGED <<err, game, secret_number, line, guess, round>>
    /\ UNCHANGED game_frame

\* match guess.cmp(&secret_number) { Less => ..., Greater => ...,
\*                                   Equal => { println!("You win!"); break; } }
GameCmp ==
    /\ pc = "game_cmp"
    /\ IF U32Less(guess, U32(secret_number))
       THEN out' = Append(out, "Too small!") /\ pc' = "game_loop"
       ELSE IF U32Less(U32(secret_number), guess)
       THEN out' = Append(out, "Too large!") /\ pc' = "game_loop"
       ELSE out' = Append(out, "You win!") /\ pc' = "game_done"
    /\ UNCHANGED <<err, game, secret_number, line, guess, round>>
    /\ UNCHANGED game_frame

NextGame ==
    \/ GameStart \/ GameSecret \/ GamePrintSecret \/ GamePrompt
    \/ GameReadLine \/ GameParse \/ GamePrintGuess \/ GameCmp

SpecGame == InitGame /\ [][NextGame]_vars

(***************************************************************************)
(* The Guess type (src/rust_chapter_9_error_handling.rs): a private i32    *)
(* field, the validating constructor and the getter.  A client creates up  *)
(* to MaxGuesses values and reads them, in any order.                      *)
(***************************************************************************)
MaxGuesses == 3
GuessMin == 1
GuessMax == 100

GuessInputs == {I32_MIN, -5, 0, 1, 2, 50, 99, 100, 101, 1000, I32_MAX}

\* Mutant: the two range tests joined by && instead of ||.
Guess_new_And(value) ==
    IF value < GuessMin /\ value > GuessMax
    THEN Panicked("Guess value must be between 1 and 100, got " \o fmt_i32(value))
    ELSE Ok([value |-> value])

\* pub fn new(value: i32) -> Guess
Guess_new(value) ==
    IF value < GuessMin \/ value > GuessMax
    THEN Panicked("Guess value must be between 1 and 100, got " \o fmt_i32(value))
    ELSE Ok([value |-> value])

\* pub fn value(&self) -> i32
Guess_value(self) == self.value

InitGuess ==
    /\ ExerciseIdle
    /\ pc = "guess_client"
    /\ out = <<>>
    /\ err = ""
    /\ returned = {}
    /\ GameIdle
    /\ GuessIdle
    /\ OpenIdle
    /\ MapIdle
    /\ LoopIdle

\* Guess::new(v)
GuessNew ==
    /\ pc = "guess_client"
    /\ Len(guesses) < MaxGuesses
    /\ \E v \in GuessInputs :
          /\ guess_arg' = v
          /\ LET r == Guess_new(v) IN
             IF r.ok THEN guesses' = Append(guesses, r.val) /\ pc' = pc /\ err' = err
             ELSE guesses' = guesses /\ pc' = "panic" /\ err' = r.msg
    /\ UNCHANGED <<got, out>>
    /\ UNCHANGED guess_frame

\* g.value() for a Guess g that exists
GuessValue ==
    /\ pc = "guess_client"
    /\ \E i \in DOMAIN guesses : got' = Guess_value(guesses[i])
    /\ UNCHANGED <<guesses, guess_arg, pc, out, err>>
    /\ UNCHANGED guess_frame

NextGuess == GuessNew \/ GuessValue

SpecGuess == InitGuess /\ [][NextGuess]_vars

(***************************************************************************)
(* Open-or-create (src/rust_chapter_9_error_handling.rs): the nested match *)
(* on ErrorKind and the unwrap_or_else version.  Each version runs in a    *)
(* file system of its own, and File::open and File::create answer the two  *)
(* of them alike: open_result and create_result are Ok or the io::Error.   *)
(***************************************************************************)
\* Ok(file)
FileOk == [ok |-> TRUE, code |-> 0, kind |-> "none", message |-> ""]

\* Err(error), for errors of the operating system (Linux codes)
OsErrors ==
    { [ok |-> FALSE, code |-> 2, kind |-> "NotFound", message |-> "No such file or directory"],
      [ok |-> FALSE, code |-> 13, kind |-> "PermissionDenied", message |-> "Permission denied"],
      [ok |-> FALSE, code |-> 21, kind |-> "IsADirectory", message |-> "Is a directory"],
      [ok |-> FALSE, code |-> 24, kind |-> "Uncategorized", message |-> "Too many open files"],
      [ok |-> FALSE, code |-> 28, kind |-> "StorageFull", message |-> "No space left on device"] }

\* {:?} of an io::Error that comes from the operating system.
fmt_debug_error(e) ==
    "Os { code: " \o fmt_nat(e.code) \o ", kind: " \o e.kind
    \o ", message: " \o fmt_debug_str(e.message) \o " }"

\* {:?} of an ErrorKind: the variant's name.
fmt_debug_kind(k) == k

Versions == {"match", "closure"}

InitOpen ==
    /\ ExerciseIdle
    /\ pc = "open_or_create"
    /\ out = <<>>
    /\ err = ""
    /\ returned = {}
    /\ GameIdle
    /\ GuessIdle
    /\ MapIdle
    /\ LoopIdle
    /\ open_result \in {FileOk} \cup OsErrors
    /\ create_result \in {FileOk} \cup OsErrors
    /\ opener = [v \in Versions |->
                    [pc |-> "start", file |-> "none", ops |-> <<>>, err |-> ""]]

\* One version takes a step to the record p.
OpenerStep(v, p) ==
    /\ pc = "open_or_create"
    /\ opener' = [opener EXCEPT ![v] = p]
    /\ UNCHANGED <<pc, out, err, open_result, create_result>>
    /\ UNCHANGED open_frame

\* let greeting_file_result = File::open("hello.txt");
MatchOpen ==
    /\ opener["match"].pc = "start"
    /\ OpenerStep("match", [opener["match"] EXCEPT
            !.ops = Append(@, <<"open", "hello.txt">>), !.pc = "opened"])

\* Mutant: every error of File::open answered by creating the file.
MatchResult_AlwaysCreate ==
    /\ opener["match"].pc = "opened"
    /\ OpenerStep("match",
          IF open_result.ok
          THEN [opener["match"] EXCEPT !.file = "opened", !.pc = "done"]
          ELSE [opener["match"] EXCEPT !.pc = "create"])

\* match greeting_file_result { Ok(file) => file,
\*     Err(error) => match error.kind() { ErrorKind::NotFound => ...,
\*         other_error => panic!("Problem opening file: {:?}", other_error) } }
MatchResult ==
    /\ opener["match"].pc = "opened"
    /\ OpenerStep("match",
          IF open_result.ok
          THEN [opener["match"] EXCEPT !.file = "opened", !.pc = "done"]
          ELSE IF open_result.kind = "NotFound"
          THEN [opener["match"] EXCEPT !.pc = "create"]
          ELSE [opener["match"] EXCEPT
                  !.pc = "panic_open",
                  !.err = "Problem opening file: " \o fmt_debug_kind(open_result.kind)])

\* match File::create("hello.txt") { Ok(fc) => fc,
\*     Err(e) => panic!("Problem creating file: {:?}", e) }
MatchCreate ==
    /\ opener["match"].pc = "create"
    /\ OpenerStep("match",
          IF create_result.ok
          THEN [opener["match"] EXCEPT
                  !.ops = Append(@, <<"create", "hello.txt">>),
                  !.file = "created", !.pc = "done"]
          ELSE [opener["match"] EXCEPT
                  !.ops = Append(@, <<"create", "hello.txt">>),
                  !.pc = "panic_create",
                  !.err = "Problem creating file: " \o fmt_debug_error(create_result)])

\* File::open("hello.txt")
ClosureOpen ==
    /\ opener["closure"].pc = "start"
    /\ OpenerStep("closure", [opener["closure"] EXCEPT
            !.ops = Append(@, <<"open", "hello.txt">>), !.pc = "opened"])

\* Mutant: the closure creates the file whatever the error kind is.
ClosureResult_NoKindTest ==
    /\ opener["closure"].pc = "opened"
    /\ OpenerStep("closure",
          IF open_result.ok
          THEN [opener["closure"] EXCEPT !.file = "opened", !.pc = "done"]
          ELSE [opener["closure"] EXCEPT !.pc = "create"])

\* .unwrap_or_else(|error| { if error.kind() == ErrorKind::NotFound { ... }
\*     else { panic!("Problem opening the file: {:?}", error); } })
ClosureResult ==
    /\ opener["closure"].pc = "opened"
    /\ OpenerStep("closure",
          IF open_result.ok
          THEN [opener["closure"] EXCEPT !.file = "opened", !.pc = "done"]
          ELSE IF open_result.kind = "NotFound"
          THEN [opener["closure"] EXCEPT !.pc = "create"]
          ELSE [opener["closure"] EXCEPT
                  !.pc = "panic_open",
                  !.err = "Problem opening the file: " \o fmt_debug_error(open_result)])

\* File::create("hello.txt").unwrap_or_else(|error| {
\*     panic!("Problem creating the file: {:?}", error); })
ClosureCreate ==
    /\ opener["closure"].pc = "create"
    /\ OpenerStep("closure",
          IF create_result.ok
          THEN [opener["closure"] EXCEPT
                  !.ops = Append(@, <<"create", "hello.txt">>),
                  !.file = "created", !.pc = "done"]
          ELSE [opener["closure"] EXCEPT
                  !.ops = Append(@, <<"create", "hello.txt">>),
                  !.pc = "panic_create",
                  !.err = "Problem creating the file: " \o fmt_debug_error(create_result)])

NextOpen ==
    \/ MatchOpen \/ MatchResult \/ MatchCreate
    \/ ClosureOpen \/ ClosureResult \/ ClosureCreate

SpecOpen == InitOpen /\ [][NextOpen]_vars

(***************************************************************************)
(* The hash map examples (src/rust_chapter_8_common_collections.rs): a     *)
(* HashMap is a function from the keys it holds.  A client applies up to   *)
(* MaxMapOps operations, insert or entry().or_insert(), and prints the map.*)
(***************************************************************************)
MaxMapOps == 3
MapKeys == {"Blue", "Yellow"}
MapValues == {10, 50}

\* map.insert(k, v): the key holds v afterwards, whatever it held before.
insert(m, k, v) == [x \in DOMAIN m \cup {k} |-> IF x = k THEN v ELSE m[x]]

\* Mutant: or_insert stores its argument in an occupied entry too.
or_insert_Overwrite(m, k, v) == insert(m, k, v)

\* map.entry(k).or_insert(v): v is stored only in a vacant entry.
or_insert(m, k, v) == IF k \in DOMAIN m THEN m ELSE insert(m, k, v)

\* {:?} of the entries in the order the iterator yields them.
RECURSIVE fmt_debug_entries(_, _)
fmt_debug_entries(m, order) ==
    IF order = <<>> THEN ""
    ELSE fmt_debug_str(Head(order)) \o ": " \o fmt_i32(m[Head(order)])
         \o (IF Len(order) > 1 THEN ", " ELSE "")
         \o fmt_debug_entries(m, Tail(order))

\* The orders in which a HashMap may yield its keys: any.
IterOrders(m) ==
    {o \in [1 .. Cardinality(DOMAIN m) -> DOMAIN m] :
        \A i, j \in DOMAIN o : i # j => o[i] # o[j]}

InitMap ==
    /\ ExerciseIdle
    /\ pc = "map_new"
    /\ out = <<>>
    /\ err = ""
    /\ returned = {}
    /\ GameIdle
    /\ GuessIdle
    /\ OpenIdle
    /\ MapIdle
    /\ LoopIdle

\* let mut map = HashMap::new();
MapNew ==
    /\ pc = "map_new"
    /\ map' = <<>>
    /\ pc' = "map_client"
    /\ UNCHANGED <<map_before, map_ops, out, err>>
    /\ UNCHANGED map_frame

\* map.insert(k, v);
MapInsert ==
    /\ pc = "map_client"
    /\ Len(map_ops) < MaxMapOps
    /\ \E k \in MapKeys, v \in MapValues :
          /\ map' = insert(map, k, v)
          /\ map_ops' = Append(map_ops, <<"insert", k, v>>)
    /\ map_before' = map
    /\ UNCHANGED <<pc, out, err>>
    /\ UNCHANGED map_frame

\* map.entry(k).or_insert(v);
MapEntryOrInsert ==
    /\ pc = "map_client"
    /\ Len(map_ops) < MaxMapOps
    /\ \E k \in MapKeys, v \in MapValues :
          /\ map' = or_insert(map, k, v)
          /\ map_ops' = Append(map_ops, <<"entry.or_insert", k, v>>)
    /\ map_before' = map
    /\ UNCHANGED <<pc, out, err>>
    /\ UNCHANGED map_frame

\* println!("{:?}", map);
MapPrint ==
    /\ pc = "map_client"
    /\ \E order \in IterOrders(map) :
          out' = Append(out, "{" \o fmt_debug_entries(map, order) \o "}")
    /\ pc' = "map_done"
    /\ UNCHANGED <<map, map_before, map_ops, err>>
    /\ UNCHANGED map_frame

NextMap == MapNew \/ MapInsert \/ MapEntryOrInsert \/ MapPrint

SpecMap == InitMap /\ [][NextMap]_vars

(***************************************************************************)
(* The loop examples of chapter 3                                          *)
(* (src/rust_chapter_3_common_concepts.rs): the loop left by a break with  *)
(* a value, and the labeled loop 'counting_up.  They are two programs of   *)
(* their own, run here side by side; each has its position in loop_pc.     *)
(* Their i32 values stay between 0 and 20, far from the type's range.      *)
(***************************************************************************)
LoopExamples == {"break_value", "counting_up"}

InitLoops ==
    /\ ExerciseIdle
    /\ pc = "loops"
    /\ out = <<>>
    /\ err = ""
    /\ returned = {}
    /\ GameIdle
    /\ GuessIdle
    /\ OpenIdle
    /\ MapIdle
    /\ loop_pc = [e \in LoopExamples |-> "start"]
    /\ up_count = 0
    /\ remaining = 0
    /\ counter = 0
    /\ loop_result = 0

\* One statement of example e: from position `from` to position `to`.
LoopStep(e, from, to) ==
    /\ pc = "loops"
    /\ loop_pc[e] = from
    /\ loop_pc' = [loop_pc EXCEPT ![e] = to]
    /\ UNCHANGED <<pc, err>>
    /\ UNCHANGED loop_frame

\* let mut counter = 0;
ValueLetCounter ==
    /\ LoopStep("break_value", "start", "incr")
    /\ counter' = 0
    /\ UNCHANGED <<out, up_count, remaining, loop_result>>

\* let result = loop { counter += 1;
ValueIncr ==
    /\ LoopStep("break_value", "incr", "if_ten")
    /\ counter' = counter + 1
    /\ UNCHANGED <<out, up_count, remaining, loop_result>>

\* if counter == 10 { break counter * 2; } }
ValueIfTen ==
    /\ IF counter = 10
       THEN /\ LoopStep("break_value", "if_ten", "done")
            /\ loop_result' = counter * 2
       ELSE /\ LoopStep("break_value", "if_ten", "incr")
            /\ UNCHANGED loop_result
    /\ UNCHANGED <<out, up_count, remaining, counter>>

\* let mut count = 0;
UpLetCount ==
    /\ LoopStep("counting_up", "start", "print_count")
    /\ up_count' = 0
    /\ UNCHANGED <<out, remaining, counter, loop_result>>

\* 'counting_up: loop { println!("count = {count}");
UpPrintCount ==
    /\ LoopStep("counting_up", "print_count", "let_remaining")
    /\ out' = Append(out, "count = " \o fmt_i32(up_count))
    /\ UNCHANGED <<up_count, remaining, counter, loop_result>>

\* let mut remaining = 10;
UpLetRemaining ==
    /\ LoopStep("counting_up", "let_remaining", "print_remaining")
    /\ remaining' = 10
    /\ UNCHANGED <<out, up_count, counter, loop_result>>

\* loop { println!("remaining = {remaining}");
UpPrintRemaining ==
    /\ LoopStep("counting_up", "print_remaining", "if_nine")
    /\ out' = Append(out, "remaining = " \o fmt_i32(remaining))
    /\ UNCHANGED <<up_count, remaining, counter, loop_result>>

\* if remaining == 9 { break; }   (leaves the inner loop, for count += 1)
UpIfNine ==
    /\ IF remaining = 9
       THEN LoopStep("counting_up", "if_nine", "incr")
       ELSE LoopStep("counting_up", "if_nine", "if_two")
    /\ UNCHANGED <<out, up_count, remaining, counter, loop_result>>

\* Mutant: a plain break, which leaves the inner loop only.
UpIfTwo_PlainBreak ==
    /\ IF up_count = 2
       THEN LoopStep("counting_up", "if_two", "incr")
       ELSE LoopStep("counting_up", "if_two", "decr")
    /\ UNCHANGED <<out, up_count, remaining, counter, loop_result>>

\* if count == 2 { break 'counting_up; }   (leaves the outer loop)
UpIfTwo ==
    /\ IF up_count = 2
       THEN LoopStep("counting_up", "if_two", "print_end")
       ELSE LoopStep("counting_up", "if_two", "decr")
    /\ UNCHANGED <<out, up_count, remaining, counter, loop_result>>

\* remaining -= 1; }
UpDecr ==
    /\ LoopStep("counting_up", "decr", "print_remaining")
    /\ remaining' = remaining - 1
    /\ UNCHANGED <<out, up_count, counter, loop_result>>

\* count += 1; }
UpIncr ==
    /\ LoopStep("counting_up", "incr", "print_count")
    /\ up_count' = up_count + 1
    /\ UNCHANGED <<out, remaining, counter, loop_result>>

\* println!("End count = {count}");
UpPrintEnd ==
    /\ LoopStep("counting_up", "print_end", "done")
    /\ out' = Append(out, "End count = " \o fmt_i32(up_count))
    /\ UNCHANGED <<up_count, remaining, counter, loop_result>>

NextValue == ValueLetCounter \/ ValueIncr \/ ValueIfTen

NextUp ==
    \/ UpLetCount \/ UpPrintCount \/ UpLetRemaining \/ UpPrintRemaining
    \/ UpIfNine \/ UpIfTwo \/ UpDecr \/ UpIncr \/ UpPrintEnd

NextLoops == NextValue \/ NextUp

SpecLoops == InitLoops /\ [][NextLoops]_vars

\* Each of the two programs keeps running while it has a next statement.
SpecLoopsLive == SpecLoops /\ WF_vars(NextValue) /\ WF_vars(NextUp)

(***************************************************************************)
(* The properties.  The reference values are written with the integers'    *)
(* own quotient, never with the model's i32 operators.                     *)
(***************************************************************************)
\* The quotient of a by b > 0 rounded toward zero, and its remainder.
Quot(a, b) == IF a >= 0 THEN a \div b ELSE (a + (b - 1)) \div b
Rem(a, b) == a - b * Quot(a, b)

\* ((f - 32) * 5) / 9 over the integers, for f >= 0: with f - 32 = 9q + r
\* it is 5q + (5r / 9).
MathF2C(f) == 5 * Quot(f - 32, 9) + Quot(5 * Rem(f - 32, 9), 9)

\* ((c * 9) / 5) + 32 over the integers is c + w + 32 with w = (4 * c) / 5,
\* and with c = 5q + r, w = 4q + (4r / 5).
FourFifths(c) == 4 * Quot(c, 5) + Quot(4 * Rem(c, 5), 5)
MathC2FIsI32(c) == IF c >= 0 THEN c <= (I32_MAX - 32) - FourFifths(c)
                   ELSE c + 32 >= I32_MIN - FourFifths(c)
MathC2F(c) == c + FourFifths(c) + 32

Applied(routine) == calls # <<>> /\ calls[1][1] = routine

\* The inputs for which every intermediate result is an i32: c * 9 for
\* celsius_to_fahrenheit (its quotient and the sum then are too), f - 32 and
\* (f - 32) * 5 for fahrenheit_to_celsius.
C2FFits(c) == c <= I32_MAX \div 9 /\ c >= -(I32_MAX \div 9)
F2CFits(f) == /\ f >= I32_MIN + 32
              /\ f - 32 <= I32_MAX \div 5
              /\ f - 32 >= -(I32_MAX \div 5)

\* C1 as stated: for every non-negative input f, fahrenheit_to_celsius(f)
\* returns ((f - 32) * 5) / 9 with the quotient rounded toward zero.
C1_F2CFormulaAsStated ==
    (Applied("fahrenheit_to_celsius") /\ arg >= 0)
        => pc = "test_done" /\ result = MathF2C(arg)

\* C1 amended: for every input f with 0 <= f <= 429496761, the inputs whose
\* product (f - 32) * 5 is an i32, fahrenheit_to_celsius(f) returns
\* ((f - 32) * 5) / 9 with the quotient rounded toward zero (up, for the
\* negative numerator of f < 32); 91 -> 32 and 44 -> 6.
C1_F2CFormula ==
    /\ I32_MAX \div 5 + 32 = 429496761
    /\ (Applied("fahrenheit_to_celsius") /\ arg >= 0 /\ arg <= 429496761) =>
          /\ pc = "test_done"
          /\ result = MathF2C(arg)
          /\ arg = 91 => result = 32
          /\ arg = 44 => result = 6
          /\ arg < 32 => result <= 0 /\ result * 9 >= (arg - 32) * 5

C1_Witness ==
    Applied("fahrenheit_to_celsius") /\ pc = "test_done" /\ arg = 0 /\ result = -17

\* C2 as stated: for every input c, celsius_to_fahrenheit(c) returns
\* ((c * 9) / 5) + 32.
C2_C2FFormulaAsStated ==
    Applied("celsius_to_fahrenheit")
        => pc = "test_done" /\ MathC2FIsI32(arg) /\ result = MathC2F(arg)

\* C2 amended: for every input c with -238609294 <= c <= 238609294, the
\* inputs whose product c * 9 is an i32, celsius_to_fahrenheit(c) returns
\* ((c * 9) / 5) + 32, the product taken before the quotient rounded toward
\* zero; 44 -> 111 and 0 -> 32.
C2_C2FFormula ==
    /\ I32_MAX \div 9 = 238609294
    /\ (Applied("celsius_to_fahrenheit") /\ arg >= -238609294 /\ arg <= 238609294) =>
          /\ pc = "test_done"
          /\ MathC2FIsI32(arg) /\ result = MathC2F(arg)
          /\ arg = 44 => result = 111
          /\ arg = 0 => result = 32

C2_Witness ==
    Applied("celsius_to_fahrenheit") /\ pc = "test_done" /\ arg = 44 /\ result = 111

\* The standard additive sequence R(k) = R(k-1) + R(k-2) from R(2) = R(3) = 1,
\* as the pair <<R(k-1), R(k)>> of exact limb pairs, for k >= 3.
RECURSIVE AdditivePair(_)
AdditivePair(k) ==
    IF k <= 3 THEN <<U32(1), U32(1)>>
    ELSE LET p == AdditivePair(k - 1)
             lo == p[1][2] + p[2][2]
         IN <<p[2], <<p[1][1] + p[2][1] + (lo \div Limb), lo % Limb>>>>

\* C3 as stated: nth_fib returns 1 for n in {0, 1, 2}, and nth_fib(3) = 2,
\* nth_fib(4) = 3, nth_fib(5) = 5, nth_fib(10) = 34.
C3_FibValuesAsStated ==
    pc = "test_done" =>
        /\ n \in {0, 1, 2} => fib_ret = U32(1)
        /\ n = 3 => fib_ret = U32(2)
        /\ n = 4 => fib_ret = U32(3)
        /\ n = 5 => fib_ret = U32(5)
        /\ n = 10 => fib_ret = U32(34)

\* C3 amended: nth_fib returns 1 for n in {0, 1, 2, 3}; from position 4 on it
\* follows the additive recurrence (every position up to 48, the last whose
\* term is a u32), with nth_fib(4) = 2, nth_fib(5) = 3, nth_fib(6) = 5 and
\* nth_fib(10) = 34; and for these positions it does return.
C3_FibValues ==
    /\ n <= 48 => pc # "panic"
    /\ pc = "test_done" =>
        /\ n \in {0, 1, 2, 3} => fib_ret = U32(1)
        /\ n = 4 => fib_ret = U32(2)
        /\ n = 5 => fib_ret = U32(3)
        /\ n = 6 => fib_ret = U32(5)
        /\ n = 10 => fib_ret = U32(34)
        /\ (n >= 4 /\ n <= 48) => fib_ret = AdditivePair(n)[2]

C3_Witness == pc = "test_done" /\ n = 10 /\ fib_ret = U32(34)

\* The twelve entries of the catalogue, as the song has them.
TwelveGifts ==
    << "A partridge in a pear tree", "Two turtle doves", "Three french hens",
       "Four calling birds", "Five golden rings", "Six geese a-laying",
       "Seven swans a-swimming", "Eight maids a-milking", "Nine ladies dancing",
       "Ten lords a-leaping", "Eleven pipers piping", "Twelve drummers drumming" >>

\* The lines of day k: the announcement, then entries k, k-1, ..., 0 (Rust
\* indices), each between double quotes.
Verse(k) ==
    <<"On the " \o ToString(k) \o "th day of Christmas, my true love gave to me">>
    \o [i \in 1 .. k + 1 |-> "\"" \o TwelveGifts[(k + 1) - (i - 1)] \o "\""]

RECURSIVE Verses(_)
Verses(k) == IF k = 0 THEN <<>> ELSE Verses(k - 1) \o Verse(k)

IsPrefix(a, b) == Len(a) <= Len(b) /\ a = SubSeq(b, 1, Len(a))

\* What main prints before it calls christmas_carol.
MainLines == <<"44c to f: 111", "91f to c: 32", "The 10th fibonacci number is: 34">>

CarolLines == SubSeq(out, Len(MainLines) + 1, Len(out))

InCarol == pc \in {"carol_let", "carol_for", "carol_announce", "carol_slice",
                   "carol_item"}

\* C4: a complete run of christmas_carol prints the verses of days 1, ..., 11
\* in ascending order and nothing else: for day k the announcement, followed
\* at once by exactly k + 1 gift lines, entries k, k-1, ..., 0; while it runs
\* it has printed a prefix of that.
C4_CarolOutput ==
    /\ InCarol => IsPrefix(CarolLines, Verses(11))
    /\ pc = "done" => CarolLines = Verses(11)
    /\ Len(Verses(11)) = 11 + 77

C4_Witness == pc = "done" /\ Len(CarolLines) = 88

\* C5: main prints '44c to f: 111', '91f to c: 32', 'The 10th fibonacci number
\* is: 34' and then the complete carol, in this order and nothing else, and
\* no panic occurs.
C5_MainOutput ==
    /\ pc # "panic" /\ err = ""
    /\ IsPrefix(out, MainLines \o Verses(11))
    /\ pc = "done" => out = MainLines \o Verses(11)

C5_Witness == pc = "done" /\ Len(out) = 91 /\ out[3] = MainLines[3]

\* C6: from its construction on, the catalogue holds exactly the twelve
\* entries in their order, in every state of the run.
C6_CatalogueFixed ==
    /\ carol_items # <<>> => (Len(carol_items) = 12 /\ carol_items = TwelveGifts)
    /\ (InCarol /\ pc # "carol_let") \/ pc = "done" => carol_items = TwelveGifts

C6_Witness == pc = "done" /\ carol_items = TwelveGifts /\ back = 0 /\ carol_n = 11

\* C9: christmas_carol cannot fail: in every iteration of the day loop
\* 0 <= n <= 11, the slice 0..=n lies inside the catalogue, and no
\* out-of-range panic occurs.
C9_SliceInBounds ==
    /\ pc \in {"carol_announce", "carol_slice", "carol_item"}
          => carol_n >= 0 /\ carol_n <= 11 /\ carol_n + 1 <= Len(carol_items)
    /\ pc = "carol_item" => back >= 0 /\ back <= carol_n + 1
    /\ InCarol => pc # "panic" /\ err = ""
    /\ err # "range end index out of range for slice"

C9_Witness == pc = "carol_item" /\ carol_n = 11 /\ back = 12

\* C7 as stated: both conversions return a value for every i32 input: no
\* panic, and no intermediate result leaves the i32 range.
C7_ConversionsTotalAsStated ==
    /\ (Applied("celsius_to_fahrenheit") \/ Applied("fahrenheit_to_celsius"))
          => pc = "test_done" /\ err = ""
    /\ Applied("celsius_to_fahrenheit") => C2FFits(arg)
    /\ Applied("fahrenheit_to_celsius") => F2CFits(arg)

\* C7 amended: celsius_to_fahrenheit returns, every intermediate result an
\* i32, exactly for -238609294 <= c <= 238609294, and fahrenheit_to_celsius
\* exactly for -429496697 <= f <= 429496761.  For every other i32 input the
\* product c * 9 or (f - 32) * 5, or the difference f - 32, leaves the range:
\* a build with overflow checks panics, a build without returns a wrapped
\* value.
C7_ConversionsTotal ==
    /\ \A x \in TempInputs :
          /\ C2FFits(x) <=> (x >= -238609294 /\ x <= 238609294)
          /\ F2CFits(x) <=> (x >= -429496697 /\ x <= 429496761)
    /\ (Applied("celsius_to_fahrenheit") /\ C2FFits(arg)) =>
          pc = "test_done" /\ err = "" /\ result = MathC2F(arg)
    /\ (Applied("fahrenheit_to_celsius") /\ F2CFits(arg)) =>
          pc = "test_done" /\ err = "" /\ result = MathF2C(arg)
    /\ (Applied("celsius_to_fahrenheit") /\ ~C2FFits(arg)) =>
          IF overflow_checks
          THEN pc = "panic" /\ err = "attempt to multiply with overflow"
          ELSE pc = "test_done" /\ (MathC2FIsI32(arg) => result # MathC2F(arg))
    /\ (Applied("fahrenheit_to_celsius") /\ ~F2CFits(arg)) =>
          IF overflow_checks
          THEN /\ pc = "panic"
               /\ err = IF arg < I32_MIN + 32
                        THEN "attempt to subtract with overflow"
                        ELSE "attempt to multiply with overflow"
          ELSE pc = "test_done" /\ (arg >= 0 => result # MathF2C(arg))

C7_Witness ==
    /\ Applied("celsius_to_fahrenheit") /\ pc = "test_done"
    /\ arg = 238609294 /\ result = 429496761 /\ overflow_checks

\* C8 as stated: nth_fib returns a value for every position: no addition,
\* subtraction or increment leaves the u32 range.
C8_FibTotalAsStated == pc # "panic" /\ err = ""

\* C8 amended: nth_fib returns a value for every position n <= 48, neither
\* the addition f2 += f1, the subtraction f2 - f1 nor the increment leaving
\* the u32 range; for a position n >= 49 the addition exceeds 2^32 - 1: a
\* build with overflow checks panics there, a build without wraps.
C8_FibTotal ==
    /\ n <= 48 => pc # "panic" /\ err = ""
    /\ (n <= 48 /\ pc = "fib_sub") => ~U32Less(f2, f1)
    /\ (n <= 48 /\ pc = "fib_inc") => ~U32Less(f2, f1)
    /\ pc \in {"fib_add", "fib_sub", "fib_inc"} => count < n
    /\ (n <= 48 /\ pc = "test_done" /\ n >= 3) => fib_ret = AdditivePair(n)[2]
    /\ (n >= 49 /\ overflow_checks) => pc # "test_done"
    /\ pc = "panic" => err = "attempt to add with overflow" /\ count = 48
    /\ (n >= 49 /\ ~overflow_checks) => pc # "panic"

C8_Witness == pc = "test_done" /\ n = 48 /\ overflow_checks /\ fib_ret = AdditivePair(48)[2]

\* C10 as stated: main passes the Fahrenheit value 44 to the hot-to-cold
\* conversion, the Celsius value 91 to the cold-to-hot conversion and position
\* 10 to nth_fib, then calls christmas_carol.
C10_InputsAsStated ==
    pc = "done" =>
        /\ \E i \in 1 .. Len(calls) : calls[i] = <<"fahrenheit_to_celsius", 44>>
        /\ \E i \in 1 .. Len(calls) : calls[i] = <<"celsius_to_fahrenheit", 91>>
        /\ \E i \in 1 .. Len(calls) : calls[i] = <<"nth_fib", 10>>
        /\ calls[Len(calls)] = <<"christmas_carol">>

\* C10 amended: main passes the Celsius value 44 to the cold-to-hot
\* conversion, the Fahrenheit value 91 to the hot-to-cold conversion and
\* position 10 to nth_fib; each label embeds the input that was passed; and
\* christmas_carol is called after the three results, in every run.
C10_Inputs ==
    /\ pc \in {"main_carol", "done"} \/ InCarol =>
        /\ SubSeq(calls, 1, 3) = << <<"celsius_to_fahrenheit", 44>>,
                                    <<"fahrenheit_to_celsius", 91>>,
                                    <<"nth_fib", 10>> >>
        /\ out[1] = ToString(calls[1][2]) \o "c to f: 111"
        /\ out[2] = ToString(calls[2][2]) \o "f to c: 32"
        /\ out[3] = "The " \o ToString(calls[3][2]) \o "th fibonacci number is: 34"
    /\ pc = "main_carol" => Len(out) = 3 /\ Len(calls) = 3 /\ ENABLED MainCarol
    /\ pc = "done" \/ InCarol => Len(calls) = 4 /\ calls[4] = <<"christmas_carol">>
    /\ pc # "panic"

C10_Witness == pc = "done" /\ Len(calls) = 4 /\ celsius = 44 /\ fahrenheit = 91

\* C11: the hot -> cold -> hot round trip of 91 is not the identity:
\* fahrenheit_to_celsius(91) returns 32, celsius_to_fahrenheit(32) returns
\* 89, and 89 differs from 91.
C11_RoundTrip91 ==
    (arg = 91 /\ Applied("fahrenheit_to_celsius")) =>
        /\ pc \in {"test_done", "test_round"}
        /\ pc = "test_done" => calls = <<(<<"fahrenheit_to_celsius", 91>>)>> /\ result = 32
        /\ pc = "test_round" =>
              /\ calls = <<(<<"fahrenheit_to_celsius", 91>>), (<<"celsius_to_fahrenheit", 32>>)>>
              /\ celsius = 32
              /\ result = 89
              /\ result # arg

C11_Witness ==
    /\ pc = "test_round"
    /\ arg = 91
    /\ calls[1][1] = "fahrenheit_to_celsius"
    /\ calls[2] = <<"celsius_to_fahrenheit", 32>>
    /\ result = 89

\* The announcement lines of days 1 .. 11, written out.
ThAnnouncements ==
    << "On the 1th day of Christmas, my true love gave to me",
       "On the 2th day of Christmas, my true love gave to me",
       "On the 3th day of Christmas, my true love gave to me",
       "On the 4th day of Christmas, my true love gave to me",
       "On the 5th day of Christmas, my true love gave to me",
       "On the 6th day of Christmas, my true love gave to me",
       "On the 7th day of Christmas, my true love gave to me",
       "On the 8th day of Christmas, my true love gave to me",
       "On the 9th day of Christmas, my true love gave to me",
       "On the 10th day of Christmas, my true love gave to me",
       "On the 11th day of Christmas, my true love gave to me" >>

\* The catalogue entries between double quotes.
QuotedGifts == {"\"" \o TwelveGifts[i] \o "\"" : i \in 1 .. 12}

Range(f) == {f[i] : i \in DOMAIN f}

\* C13: every day-announcement line printed is 'On the {day}th day of
\* Christmas, my true love gave to me' with the suffix 'th' for each day
\* 1 .. 11 (1th, 2th and 3th included), and every other line of the carol is
\* a catalogue entry between double quotes.
C13_LineForms ==
    /\ pc = "carol_slice" =>
          /\ carol_n \in 1 .. 11
          /\ out[Len(out)] = ThAnnouncements[carol_n]
    /\ (pc = "carol_item" /\ back <= carol_n) =>
          out[Len(out)] = "\"" \o TwelveGifts[back + 1] \o "\""
    /\ \A i \in 1 .. Len(CarolLines) :
          CarolLines[i] \in Range(ThAnnouncements) \cup QuotedGifts
    /\ pc = "done" => Range(ThAnnouncements) \subseteq Range(CarolLines)
    /\ "\"A partridge in a pear tree\"" \in QuotedGifts

C13_Witness ==
    /\ pc = "carol_item"
    /\ carol_n = 3
    /\ back = 3
    /\ out[Len(out) - 1] = "On the 3th day of Christmas, my true love gave to me"
    /\ out[Len(out)] = "\"Four calling birds\""

\* The loops of the run stay within their statically fixed iteration counts:
\* nth_fib's counter goes from 2 to n = 10, the day range yields 1 .. 11, and
\* the gift iterator of day k holds at most k + 1 <= 12 entries.
LoopBounds ==
    /\ count <= 10
    /\ range_start <= 12
    /\ carol_n <= 11
    /\ back <= carol_n + 1
    /\ Len(out) <= 3 + 88

\* C14: the exercise program always runs to completion: main eventually
\* reaches its end state, without a panic, and every loop executes a bounded,
\* statically fixed number of iterations.
C14_RunsToCompletion == <>(pc = "done" /\ err = "") /\ []LoopBounds

C14_Witness ==
    pc = "done" /\ count = 10 /\ range_start = 12 /\ carol_n = 11 /\ Len(out) = 91

\* The last call made and the value it returned.
LastCall == calls[Len(calls)]
LastOutput == IF LastCall[1] = "nth_fib" THEN fib_ret ELSE result

\* C12: celsius_to_fahrenheit, fahrenheit_to_celsius and nth_fib are
\* deterministic and stateless: a call that returns hands back the value
\* every earlier call of the same routine with the same input handed back,
\* whatever calls were made in between, and a call that returned once is
\* never followed by a panic of the same call.
C12_SameInputSameOutput ==
    /\ pc = "test_done" =>
          \A r \in returned : r[1] = LastCall => r[2] = LastOutput
    /\ \A r1, r2 \in returned : r1[1] = r2[1] => r1[2] = r2[2]
    /\ (pc = "panic" /\ calls # <<>>) => \A r \in returned : r[1] # LastCall

C12_Witness ==
    /\ pc = "test_done"
    /\ calls = <<(<<"nth_fib", 10>>), (<<"fahrenheit_to_celsius", 91>>), (<<"nth_fib", 10>>)>>
    /\ <<(<<"nth_fib", 10>>), U32(34)>> \in returned
    /\ fib_ret = U32(34)

\* The number of 'You win!' lines printed.
Wins == Cardinality({i \in 1 .. Len(out) : out[i] = "You win!"})

\* The u32 a typed line stands for, for the lines that hold one.
TypedNumber(l) ==
    CASE l = <<"5", "0", "\n">> -> <<0, 50>>
      [] l = <<"1", "0", "0", "\r", "\n">> -> <<0, 100>>
      [] l = <<" ", "7", "\t", "\n">> -> <<0, 7>>
      [] l = <<"", "7", "\f", "\n">> -> <<0, 7>>
      [] l = <<"U+00A0", "7", "U+3000", "\n">> -> <<0, 7>>
      [] l = <<"+", "5", "\n">> -> <<0, 5>>
      [] l = <<"4", "2", "9", "4", "9", "6", "7", "2", "9", "5", "\n">> -> <<65535, 65535>>
      [] OTHER -> <<>>

\* C15: in the looping guessing game the loop is left only in a round whose
\* parsed guess equals the secret number: 'You win!' is printed at most once
\* and is then the last output, a round whose guess differs from the secret
\* prints 'Too small!' or 'Too large!' and is back at the start of the loop,
\* and a round that has parsed a guess never panics.
C15_LeftOnlyOnEqual ==
    /\ Wins <= 1
    /\ pc = "game_done" =>
          /\ guess = <<0, secret_number>>
          /\ guess = TypedNumber(line)
          /\ Wins = 1
          /\ out[Len(out)] = "You win!"
    /\ pc # "game_done" => Wins = 0
    /\ (pc = "game_loop" /\ guess # <<>>) =>
          /\ guess # <<0, secret_number>>
          /\ guess = TypedNumber(line)
          /\ out[Len(out)] = (IF guess[1] = 0 /\ guess[2] < secret_number
                              THEN "Too small!" ELSE "Too large!")
    /\ pc = "panic" => guess = <<>>

C15_Witness ==
    /\ game = "loop"
    /\ pc = "game_done"
    /\ secret_number = 50
    /\ out = << "Guess the number!", "The secret number is 50.",
               "Please input your guess.", "You guessed: 7", "Too small!",
               "Please input your guess.", "You guessed: 50", "You win!" >>

\* The final game in a round whose line holds no u32.
\* The panic messages of a read that failed.
ReadPanics ==
    { "Failed to read line: Error { kind: InvalidData, message: \"stream did not contain valid UTF-8\" }",
      "Failed to read line: Os { code: 21, kind: IsADirectory, message: \"Is a directory\" }" }

NonNumericRound == game = "final" /\ round > 0 /\ TypedNumber(line) = <<>>

\* C16: in the final guessing game a non-numeric input line never terminates
\* the program: the step after reading it leads to the start of the loop
\* with nothing printed and no guess bound (no 'You guessed', no comparison,
\* no panic), and the step after that is the prompt for another guess.
C16_NonNumericRestarts ==
    /\ [](NonNumericRound =>
            /\ pc \in {"game_read", "game_parse", "game_loop", "panic"}
            /\ pc = "panic" => line = <<>> /\ err \in ReadPanics
            /\ guess = <<>>
            /\ pc = "game_loop" => out[Len(out)] = "Please input your guess.")
    /\ [][(NonNumericRound /\ pc = "game_parse") =>
            pc' = "game_loop" /\ out' = out /\ err' = err]_vars
    /\ [][(NonNumericRound /\ pc = "game_loop") =>
            /\ pc' = "game_read"
            /\ out' = Append(out, "Please input your guess.")]_vars

C16_Witness ==
    /\ game = "final"
    /\ pc = "game_loop"
    /\ line = <<"a", "b", "c", "\n">>
    /\ out = << "Guess the number!", "The secret number is 50.",
               "Please input your guess.", "You guessed: 7", "Too small!",
               "Please input your guess." >>

\* C17: every Guess that exists holds a value between 1 and 100 inclusive:
\* Guess::new(v) appends a Guess holding v when 1 <= v <= 100 and otherwise
\* panics with 'Guess value must be between 1 and 100, got v' and produces
\* none; value() returns the held value; and no step changes the value of a
\* Guess that exists.
C17_GuessInRange ==
    /\ [](/\ \A i \in DOMAIN guesses :
               guesses[i].value >= 1 /\ guesses[i].value <= 100
          /\ (pc = "guess_client" /\ guesses # <<>>) =>
               /\ guess_arg >= 1 /\ guess_arg <= 100
               /\ guesses[Len(guesses)].value = guess_arg
          /\ pc = "panic" =>
               /\ guess_arg < 1 \/ guess_arg > 100
               /\ err = "Guess value must be between 1 and 100, got "
                          \o ToString(guess_arg))
    /\ [][/\ \A i \in DOMAIN guesses :
               i \in DOMAIN guesses' /\ guesses'[i] = guesses[i]
          /\ got' # got => guesses' = guesses /\ \E i \in DOMAIN guesses :
                                                    got' = guesses[i].value
          /\ (guesses' # guesses /\ guess_arg' >= 1 /\ guess_arg' <= 100) =>
               guesses' = Append(guesses, [value |-> guess_arg'])]_vars

C17_Witness ==
    /\ pc = "guess_client"
    /\ Len(guesses) = 3
    /\ guesses[1].value = 1
    /\ guesses[2].value = 100
    /\ got = 100

OpenOp == <<"open", "hello.txt">>
CreateOp == <<"create", "hello.txt">>

Finished(p) == p.pc \in {"done", "panic_open", "panic_create"}

\* The panic messages of the nested match, written out.
CreatingFileMessages ==
    { "Problem creating file: Os { code: 2, kind: NotFound, message: \"No such file or directory\" }",
      "Problem creating file: Os { code: 13, kind: PermissionDenied, message: \"Permission denied\" }",
      "Problem creating file: Os { code: 21, kind: IsADirectory, message: \"Is a directory\" }",
      "Problem creating file: Os { code: 24, kind: Uncategorized, message: \"Too many open files\" }",
      "Problem creating file: Os { code: 28, kind: StorageFull, message: \"No space left on device\" }" }

OpeningFileMessages ==
    { "Problem opening file: PermissionDenied", "Problem opening file: IsADirectory",
      "Problem opening file: Uncategorized", "Problem opening file: StorageFull" }

\* C18: the nested match ends as follows.  Open succeeds: the opened file is
\* used and nothing else is done.  Open fails with NotFound: the file is
\* created and used, or the program panics with 'Problem creating file' if
\* the creation fails.  Open fails with another error kind: the program
\* panics with 'Problem opening file' and no creation is attempted.
C18_OpenOrCreate ==
    LET m == opener["match"] IN
    /\ CreateOp \in Range(m.ops) => ~open_result.ok /\ open_result.kind = "NotFound"
    /\ Finished(m) =>
         IF open_result.ok
         THEN m.pc = "done" /\ m.file = "opened" /\ m.ops = <<OpenOp>> /\ m.err = ""
         ELSE IF open_result.kind = "NotFound"
         THEN /\ m.ops = <<OpenOp, CreateOp>>
              /\ IF create_result.ok
                 THEN m.pc = "done" /\ m.file = "created" /\ m.err = ""
                 ELSE /\ m.pc = "panic_create"
                      /\ m.file = "none"
                      /\ m.err \in CreatingFileMessages
         ELSE /\ m.pc = "panic_open"
              /\ m.file = "none"
              /\ m.ops = <<OpenOp>>
              /\ m.err \in OpeningFileMessages

C18_Witness ==
    /\ opener["match"].pc = "panic_create"
    /\ open_result.kind = "NotFound"
    /\ create_result.kind = "PermissionDenied"
    /\ opener["match"].ops = <<OpenOp, CreateOp>>

\* C19: for every open outcome and create outcome the unwrap_or_else version
\* and the nested match end alike: both obtain the file (the opened one, or
\* the created one), or both panic at the open step, or both panic at the
\* create step, and both have performed the same file operations.
C19_SameOutcome ==
    LET m == opener["match"]
        c == opener["closure"]
    IN (Finished(m) /\ Finished(c)) =>
          /\ c.pc = m.pc
          /\ c.file = m.file
          /\ c.ops = m.ops
          /\ (c.err = "") = (m.err = "")

C19_Witness ==
    /\ opener["match"].pc = "panic_open"
    /\ opener["closure"].pc = "panic_open"
    /\ open_result.kind = "PermissionDenied"
    /\ opener["closure"].ops = <<OpenOp>>
    /\ opener["closure"].err =
         "Problem opening the file: Os { code: 13, kind: PermissionDenied, message: \"Permission denied\" }"

\* The last operation applied to the map.
LastMapOp == map_ops[Len(map_ops)]

\* The keys other than k hold in the map what they held before.
OthersKept(k) ==
    /\ DOMAIN map \ {k} = DOMAIN map_before \ {k}
    /\ \A x \in DOMAIN map \ {k} : map[x] = map_before[x]

\* C20: insert on an existing key overwrites the stored value, while
\* entry(key).or_insert(v) inserts v only when the key is absent and leaves
\* the value of an existing key unchanged; neither touches another key.
\* After insert(Blue, 10), entry(Yellow).or_insert(50),
\* entry(Blue).or_insert(50) the map is exactly {Yellow: 50, Blue: 10}.
C20_InsertAndOrInsert ==
    /\ map_ops # <<>> =>
         LET k == LastMapOp[2]
             v == LastMapOp[3]
         IN /\ OthersKept(k)
            /\ k \in DOMAIN map
            /\ LastMapOp[1] = "insert" => map[k] = v
            /\ LastMapOp[1] = "entry.or_insert" =>
                 map[k] = (IF k \in DOMAIN map_before THEN map_before[k] ELSE v)
    /\ map_ops = << <<"insert", "Blue", 10>>, <<"entry.or_insert", "Yellow", 50>>,
                   <<"entry.or_insert", "Blue", 50>> >> =>
         /\ DOMAIN map = {"Yellow", "Blue"}
         /\ map["Yellow"] = 50
         /\ map["Blue"] = 10
         /\ pc = "map_done" =>
              out[1] \in {"{\"Yellow\": 50, \"Blue\": 10}", "{\"Blue\": 10, \"Yellow\": 50}"}
    /\ map_ops = << <<"insert", "Blue", 10>>, <<"insert", "Blue", 50>> >> =>
         DOMAIN map = {"Blue"} /\ map["Blue"] = 50

C20_Witness ==
    /\ pc = "map_done"
    /\ map_ops = << <<"insert", "Blue", 10>>, <<"entry.or_insert", "Yellow", 50>>,
                   <<"entry.or_insert", "Blue", 50>> >>
    /\ map_before = map
    /\ map["Blue"] = 10
    /\ out = <<"{\"Yellow\": 50, \"Blue\": 10}">>

\* The accumulators at the head of the loop when the counter is k >= 2,
\* computed over the integers (the high limb is not reduced): <<0, 1>> at
\* k = 2, and <<b, a + b>> after <<a, b>>.
RECURSIVE LoopPair(_)
LoopPair(k) ==
    IF k <= 2 THEN <<(<<0, 0>>), (<<0, 1>>)>>
    ELSE LET p == LoopPair(k - 1)
             lo == p[1][2] + p[2][2]
         IN <<p[2], <<p[1][1] + p[2][1] + (lo \div Limb), lo % Limb>>>>

\* An integer given by limbs, reduced modulo 2^32.
Mod32(w) == <<w[1] % Limb, w[2]>>

\* C22 as stated: every iteration maps (f1, f2, count) to
\* (f2, f1 + f2, count + 1) from (0, 1, 2), so that at the head of the loop
\* the accumulators are the pair the integers give for the counter.
C22_RotationAsStated ==
    pc \in {"fib_while", "fib_add", "test_done"} =>
        f1 = LoopPair(count)[1] /\ f2 = LoopPair(count)[2]

\* C22 amended: every iteration that starts with f1 + f2 <= 2^32 - 1 (all
\* iterations with count <= 47, so all of a call with n <= 48) maps
\* (f1, f2, count) to (f2, f1 + f2, count + 1) from (0, 1, 2): after
\* f2 += f1, f2 holds the sum, and after f1 = f2 - f1, f1 holds the previous
\* f2.  In the iteration that starts with count = 48 the sum is not a u32:
\* with overflow checks the addition panics and leaves the state as it was,
\* without them f2 holds the sum modulo 2^32 and f1 still the previous f2.
C22_Rotation ==
    /\ pc \in {"fib_while", "fib_add", "test_done"} =>
          /\ count >= 2
          /\ f1 = Mod32(LoopPair(count)[1])
          /\ f2 = Mod32(LoopPair(count)[2])
          /\ count <= 48 => f1 = LoopPair(count)[1] /\ f2 = LoopPair(count)[2]
    /\ pc = "fib_sub" =>
          /\ f1 = Mod32(LoopPair(count)[1])
          /\ f2 = Mod32(LoopPair(count + 1)[2])
          /\ count <= 47 => f2 = LoopPair(count + 1)[2]
    /\ pc = "fib_inc" =>
          /\ f1 = Mod32(LoopPair(count)[2])
          /\ f2 = Mod32(LoopPair(count + 1)[2])
    /\ pc = "panic" =>
          /\ overflow_checks
          /\ count = 48
          /\ f1 = LoopPair(48)[1] /\ f2 = LoopPair(48)[2]
    /\ LoopPair(48) = <<(<<28019, 58719>>), (<<45337, 9441>>)>>
    /\ LoopPair(49)[2][1] >= Limb

C22_Witness ==
    pc = "fib_inc" /\ count = 9 /\ f1 = <<0, 21>> /\ f2 = <<0, 34>>

Max(a, b) == IF a >= b THEN a ELSE b

\* C23 as stated: for every position n the loop terminates after exactly
\* max(n - 2, 0) iterations, the counter going from 2 to max(n, 2) without
\* exceeding it, and the function returns.
C23_IterationsAsStated ==
    /\ pc # "panic"
    /\ pc # "fib_lets" => count >= 2 /\ count <= Max(n, 2)
    /\ pc = "test_done" => count - 2 = Max(n - 2, 0)

\* C23 amended: the counter starts at 2, increases by exactly 1 per
\* iteration and never exceeds max(n, 2), and the loop body runs only while
\* count < n.  For every position n <= 48, and for every position in a build
\* without overflow checks, the call returns after exactly max(n - 2, 0)
\* iterations; for n >= 49 in a build with overflow checks it ends by the
\* panic of the addition in the 47th iteration, count still 48.
C23_Iterations ==
    /\ <>(pc \in {"test_done", "panic"})
    /\ [](/\ pc # "fib_lets" => count >= 2 /\ count <= Max(n, 2)
          /\ pc \in {"fib_add", "fib_sub", "fib_inc"} => count < n
          /\ pc = "test_done" => count - 2 = Max(n - 2, 0)
          /\ (n <= 48 \/ ~overflow_checks) => pc # "panic"
          /\ pc = "panic" => count - 2 = 46)
    /\ [][count' # count =>
            \/ pc = "fib_lets" /\ count' = 2
            \/ pc = "fib_inc" /\ count' = count + 1]_vars
    /\ (n >= 49 /\ overflow_checks) ~> (pc = "panic")
    /\ (n <= 48 \/ ~overflow_checks) ~> (pc = "test_done")

C23_Witness == pc = "test_done" /\ n = 48 /\ count = 48 /\ overflow_checks

\* The sequence 0, 1, 1, 2, 3, 5, 8, ... counted from 1, as integers given
\* by limbs: its first twelve elements written out, the later ones by the
\* recurrence.
FirstTwelve == <<0, 1, 1, 2, 3, 5, 8, 13, 21, 34, 55, 89>>

\* Elements k - 1 and k, for k >= 2.
RECURSIVE ElementPair(_)
ElementPair(k) ==
    IF k <= 12 THEN <<(<<0, FirstTwelve[k - 1]>>), (<<0, FirstTwelve[k]>>)>>
    ELSE LET p == ElementPair(k - 1)
             lo == p[1][2] + p[2][2]
         IN <<p[2], <<p[1][1] + p[2][1] + (lo \div Limb), lo % Limb>>>>

Element(k) == ElementPair(k)[2]

\* C25: for every n with 2 <= n <= 48, nth_fib(n) returns the n-th element,
\* counting from 1, of 0, 1, 1, 2, 3, 5, 8, ...: nth_fib(2) = nth_fib(3) = 1,
\* nth_fib(4) = 2, nth_fib(5) = 3, nth_fib(10) = 34; and nth_fib is
\* non-decreasing in n over that range.
C25_NthElement ==
    /\ (n >= 2 /\ n <= 48) =>
          /\ pc # "panic"
          /\ pc = "test_done" =>
                /\ fib_ret = Element(n)
                /\ fib_ret[1] < Limb
                /\ n \in {2, 3} => fib_ret = <<0, 1>>
                /\ n = 4 => fib_ret = <<0, 2>>
                /\ n = 5 => fib_ret = <<0, 3>>
                /\ n = 10 => fib_ret = <<0, 34>>
                /\ n = 48 => fib_ret = <<45337, 9441>>
                /\ n < 48 => ~U32Less(Element(n + 1), fib_ret)
                /\ n > 2 => ~U32Less(fib_ret, Element(n - 1))

C25_Witness == pc = "test_done" /\ n = 5 /\ fib_ret = <<0, 3>>

InFib == pc \in {"fib_while", "fib_add", "fib_sub", "fib_inc", "test_done"}

\* C26 as stated: in every reachable state of nth_fib f1 <= f2, at the head
\* of the loop and between the two updates, and the subtraction f2 - f1
\* never underflows.
C26_OrderedAsStated ==
    /\ InFib => ~U32Less(f2, f1)
    /\ err # "attempt to subtract with overflow"

\* C26 amended: in every reachable state of a call with n <= 48, and of any
\* call in a build with overflow checks, f1 <= f2 holds at the head of the
\* loop and between the two updates, so f2 - f1 does not underflow.  In a
\* build without overflow checks a call with n >= 49 wraps the addition at
\* count = 48 and then has f2 = 512559680 < f1 = 1836311903, so that the
\* subtraction wraps as well (to 2971215073, the previous f2).
C26_Ordered ==
    /\ (InFib /\ (n <= 48 \/ overflow_checks)) => ~U32Less(f2, f1)
    /\ err # "attempt to subtract with overflow"
    /\ (pc = "fib_sub" /\ count = 48) =>
          /\ ~overflow_checks /\ n >= 49
          /\ f1 = <<28019, 58719>>
          /\ f2 = <<7821, 2624>>
          /\ U32Less(f2, f1)
    /\ (pc = "fib_inc" /\ count = 48) => f1 = <<45337, 9441>> /\ U32Less(f2, f1)

C26_Witness ==
    pc = "fib_sub" /\ n = 48 /\ count = 47 /\ f2 = <<45337, 9441>> /\ ~U32Less(f2, f1)

\* f1 + f2 over the integers, by limbs (the high limb not reduced).
ExactSum == <<f1[1] + f2[1] + ((f1[2] + f2[2]) \div Limb), (f1[2] + f2[2]) % Limb>>

\* C27: with 32-bit unsigned arithmetic no value computed by nth_fib(n)
\* exceeds 2^32 - 1 for any n <= 48: every sum f2 + f1 formed with
\* count <= 47 is a u32.  The sum formed with count = 48, which n = 49 is the
\* smallest position to reach, is 4807526976 > 2^32 - 1: there a build with
\* overflow checks panics and a build without stores 512559680.
C27_FirstOverflow ==
    /\ n <= 48 => pc # "panic" /\ err = ""
    /\ pc \in {"fib_add", "fib_sub", "fib_inc"} => count < n
    /\ (pc = "fib_add" /\ count <= 47) => ExactSum[1] < Limb
    /\ (pc = "fib_sub" /\ count <= 47) => f2 = LoopPair(count + 1)[2] /\ f2[1] < Limb
    /\ (pc = "fib_add" /\ count = 48) =>
          /\ n >= 49
          /\ ExactSum = <<73357, 2624>>
          /\ ExactSum[1] >= Limb
    /\ (pc = "fib_sub" /\ count = 48) => ~overflow_checks /\ f2 = <<7821, 2624>>
    /\ pc = "panic" =>
          /\ overflow_checks /\ n >= 49 /\ count = 48
          /\ err = "attempt to add with overflow"
    /\ (n >= 49 /\ overflow_checks) => pc # "test_done"
    /\ (pc = "test_done" /\ n = 49) => fib_ret = <<7821, 2624>>
    /\ (pc = "test_done" /\ n = 48) => fib_ret = <<45337, 9441>>

C27_Witness ==
    pc = "panic" /\ n = 49 /\ count = 48 /\ f1 = <<28019, 58719>> /\ f2 = <<45337, 9441>>

\* C28: for inputs whose intermediates do not overflow the round-trip error
\* is bounded: for every f >= 32, celsius_to_fahrenheit(fahrenheit_to_celsius(f))
\* returns f - 2, f - 1 or f, never more than f; for every c >= 0,
\* fahrenheit_to_celsius(celsius_to_fahrenheit(c)) returns c - 1 or c.
C28_RoundTripBound ==
    /\ (Len(calls) = 2 /\ Applied("fahrenheit_to_celsius") /\ arg >= 32 /\ F2CFits(arg)) =>
          /\ pc = "test_round"
          /\ calls[2] = <<"celsius_to_fahrenheit", MathF2C(arg)>>
          /\ result \in {arg - 2, arg - 1, arg}
    /\ (Len(calls) = 2 /\ Applied("celsius_to_fahrenheit") /\ arg >= 0 /\ C2FFits(arg)) =>
          /\ pc = "test_round"
          /\ calls[2] = <<"fahrenheit_to_celsius", MathC2F(arg)>>
          /\ result \in {arg - 1, arg}

C28_Witness ==
    /\ pc = "test_round"
    /\ Applied("fahrenheit_to_celsius")
    /\ arg = 35
    /\ calls[2][2] = 1
    /\ result = 33

\* The gift line of catalogue entry i (Rust index, 0 .. 11).
GiftLine(i) == "\"" \o TwelveGifts[i + 1] \o "\""

\* How many times entry i has been printed.
Times(i) == Cardinality({j \in 1 .. Len(CarolLines) : CarolLines[j] = GiftLine(i)})

\* The positions of the announcement lines in the carol.
Announced == {j \in 1 .. Len(CarolLines) : CarolLines[j] \in Range(ThAnnouncements)}

\* C29: over a complete run of christmas_carol entry i is printed exactly
\* 12 - max(i, 1) times: entries 0 and 1 in all 11 verses, the twelfth entry
\* (index 11) exactly once, as the first gift of day 11; every verse ends
\* with entry 0; and the carol has 88 lines.
C29_EntryCounts ==
    /\ (pc = "carol_for" /\ range_start > 1) => out[Len(out)] = GiftLine(0)
    /\ pc = "done" =>
          /\ \A i \in 0 .. 11 : Times(i) = 12 - Max(i, 1)
          /\ Times(0) = 11 /\ Times(1) = 11 /\ Times(11) = 1
          /\ Cardinality(Announced) = 11
          /\ \A j \in Announced : j > 1 => CarolLines[j - 1] = GiftLine(0)
          /\ CarolLines[Len(CarolLines)] = GiftLine(0)
          /\ \A j \in Announced :
                CarolLines[j] = "On the 11th day of Christmas, my true love gave to me"
                    <=> CarolLines[j + 1] = GiftLine(11)
          /\ Len(CarolLines) = 88

C29_Witness ==
    pc = "done" /\ Times(11) = 1 /\ Times(5) = 7 /\ CarolLines[88] = GiftLine(0)

\* The 'You guessed' lines of the numbers that can be typed, and the feedbacks.
GuessedLines ==
    { "You guessed: 50", "You guessed: 100", "You guessed: 7", "You guessed: 5",
      "You guessed: 4294967295" }
FeedbackLines == {"Too small!", "Too large!", "You win!"}

CountLines(S) == Cardinality({j \in 1 .. Len(out) : out[j] \in S})

\* The typed number t, a u32 given by limbs, is below / above the secret.
Below(t) == t[1] = 0 /\ t[2] < secret_number
Above(t) == t[1] > 0 \/ t[2] > secret_number

\* C24: in every round that parses a number exactly one feedback is
\* produced, right after 'You guessed: {guess}', and it is 'Too small!' iff
\* guess < secret, 'Too large!' iff guess > secret, 'You win!' iff
\* guess = secret; a round that parses no number produces none.
C24_OneFeedback ==
    /\ CountLines(FeedbackLines) =
          (IF pc = "game_cmp" THEN CountLines(GuessedLines) - 1
           ELSE CountLines(GuessedLines))
    /\ \A j \in 1 .. Len(out) :
          /\ (out[j] \in GuessedLines /\ j < Len(out)) => out[j + 1] \in FeedbackLines
          /\ out[j] \in FeedbackLines => out[j - 1] \in GuessedLines
    /\ pc = "game_cmp" => out[Len(out)] \in GuessedLines /\ guess = TypedNumber(line)
    /\ (pc \in {"game_loop", "game_done"} /\ guess # <<>>) =>
          LET t == TypedNumber(line)
              fb == out[Len(out)]
          IN /\ t # <<>>
             /\ out[Len(out) - 1] \in GuessedLines
             /\ fb \in FeedbackLines
             /\ fb = "Too small!" <=> Below(t)
             /\ fb = "Too large!" <=> Above(t)
             /\ fb = "You win!" <=> (~Below(t) /\ ~Above(t))
    /\ (pc = "game_loop" /\ round > 0 /\ guess = <<>>) =>
          out[Len(out)] = "Please input your guess."

C24_Witness ==
    /\ pc = "game_loop"
    /\ secret_number = 50
    /\ line = <<"1", "0", "0", "\r", "\n">>
    /\ out = << "Guess the number!", "The secret number is 50.",
               "Please input your guess.", "You guessed: 5", "Too small!",
               "Please input your guess.", "You guessed: 100", "Too large!" >>

\* The line that announced the secret before the loop.
AnnouncedSecret == out[2] = "The secret number is " \o ToString(secret_number) \o "."

\* C30: the secret number is chosen once, in 1..=100, before the loop, and
\* no round changes it: whatever numeric and non-numeric lines are read, the
\* secret of every round is the one chosen (and announced) at the start.
C30_SecretFixed ==
    /\ [](pc \notin {"game_start", "game_secret"} => secret_number \in 1 .. 100)
    /\ [](pc = "game_secret" => round = 0 /\ Len(out) = 1)
    /\ [](round > 0 => AnnouncedSecret)
    /\ [][pc # "game_secret" => secret_number' = secret_number]_vars
    /\ [][pc = "game_cmp" =>
            out'[Len(out')] = (IF Below(guess) THEN "Too small!"
                               ELSE IF Above(guess) THEN "Too large!"
                               ELSE "You win!")]_vars

C30_Witness ==
    /\ pc = "game_cmp"
    /\ round = 2
    /\ game = "final"
    /\ secret_number = 100
    /\ guess = <<0, 100>>
    /\ out = << "Guess the number!", "The secret number is 100.",
               "Please input your guess.", "Please input your guess.",
               "You guessed: 100" >>

\* Position of the 'counting_up example.
UpAt(p) == loop_pc["counting_up"] = p

\* What the 'counting_up example prints.
CountingUpLines ==
    << "count = 0", "remaining = 10", "remaining = 9",
       "count = 1", "remaining = 10", "remaining = 9",
       "count = 2", "remaining = 10", "End count = 2" >>

\* C21: the labeled-loop example terminates and prints 'End count = 2'.
\* The inner loop is left by the plain break each time remaining reaches 9,
\* while count is 0 and then 1; count is incremented once per such exit;
\* when count is 2, break 'counting_up leaves the outer loop with remaining
\* still 10 and count not incremented again.
C21_CountingUp ==
    /\ <>UpAt("done")
    /\ [](UpAt("done") => /\ out = CountingUpLines
                          /\ up_count = 2
                          /\ remaining = 10)
    /\ [](up_count \in 0 .. 2 /\ IsPrefix(out, CountingUpLines))
    /\ [][(UpAt("if_nine") /\ UpAt("incr")') =>
             remaining = 9 /\ up_count \in {0, 1}]_vars
    /\ [][up_count' # up_count =>
             /\ UpAt("incr")
             /\ up_count' = up_count + 1
             /\ remaining = 9]_vars
    /\ [][(UpAt("if_two") /\ UpAt("print_end")') =>
             /\ up_count = 2
             /\ remaining = 10
             /\ UNCHANGED <<up_count, remaining>>]_vars
    /\ [][UpAt("done") => UNCHANGED <<up_count, remaining, out>>]_vars

C21_Witness ==
    /\ UpAt("done")
    /\ out[Len(out)] = "End count = 2"
    /\ Len(out) = 9
    /\ loop_pc["break_value"] = "done"
    /\ loop_result = 20

====
